---------------------------- MODULE Spec2Model ----------------------------
(***************************************************************************)
(* Model of the metrics notebooks of software-landscape-analysis           *)
(* (notebooks/cytomining-ecosystem/gather-targeted-github-data.py).        *)
(*                                                                         *)
(* Python strings are sequences of one-character strings, so that          *)
(* strptime, strftime, str() and str.lower() are computed, not assumed.    *)
(* Python dicts are functions from keys to values; dict objects live on a  *)
(* heap and the program's names hold references to them, so that aliasing  *)
(* and in-place mutation (dict.update, result[k] = 0) are visible.         *)
(***************************************************************************)
EXTENDS Integers, Sequences, FiniteSets, TLC

VARIABLES
    heap,           \* sequence of dict objects; a reference is an index
    months_data,    \* add_missing_months: parameter (reference)
    years_data,     \* add_missing_years: parameter (reference)
    date_minimum,   \* parameter, a string
    date_max,       \* parameter, a string
    start_date,     \* local: datetime (months) or int (years)
    end_date,       \* local: datetime (months) or int (years)
    current_date,   \* local of add_missing_months: datetime
    current_year,   \* local of add_missing_years: int
    result,         \* local: reference to the dict being built
    ret,            \* the reference a call returned
    prev_ret,       \* the reference the previous call returned
    calls,          \* how many times the caller has called
    passed,         \* the caller's copy of the mapping it passed
    raised,         \* the exception that escaped, or "none"
    pc,             \* position in the code
    tgt_github_metrics, \* the list of project records the cells rebind
    comprehension,  \* the list the running list comprehension has built
    searched,       \* per project, what the search or query of a cell returned
    loi_target_projects, \* the target projects with their repositories
    pub_metrics,    \* publication notebook: the list of project records
    string_list,    \* return_distinct_values_by_threshold: parameter
    threshold,      \* return_distinct_values_by_threshold: parameter
    distinct_list,  \* local: the list being built
    idx_i,          \* local i of the outer loop (counted from 0)
    idx_j,          \* local j of the inner loop (counted from 0)
    distinct_ret,   \* the list a call returned
    return_to,      \* where the running call returns to
    pkg_metrics,    \* package notebook: the list of project records
    call_args,      \* the arguments of the running call of a small function
    call_ret,       \* the value that call returned
    github_client,  \* what GitHub answers to the queries of the client
    df_projects,    \* project-git-metrics: the rows of the data frame
    target_project_html_urls, \* seek-landscape-entries: the target repo_urls
    results,        \* seek-landscape-entries: the list of result records
    df_scrna_tools_records, \* the records taken from the scRNA-Tools table
    seen_url,       \* the set the uniqueness filter fills
    projects_yaml   \* the list exported to data/projects.yaml

densify_vars == <<heap, months_data, years_data, date_minimum, date_max,
                  start_date, end_date, current_date, current_year,
                  result, ret, prev_ret, calls, passed, raised, pc>>

densify_vars_but_pc ==
    <<heap, months_data, years_data, date_minimum, date_max, start_date,
      end_date, current_date, current_year, result, ret, prev_ret, calls,
      passed, raised>>

notebook_vars ==
    <<tgt_github_metrics, comprehension, searched, loi_target_projects>>

pub_vars == <<pub_metrics, string_list, threshold, distinct_list, idx_i,
              idx_j, distinct_ret, return_to>>

\* the package notebook and the functions that are called on their own
later_vars == <<pkg_metrics, call_args, call_ret, github_client>>

\* project-git-metrics and seek-landscape-entries
landscape_vars == <<df_projects, target_project_html_urls, results,
                    df_scrna_tools_records, seen_url, projects_yaml>>

\* the variables of the other notebooks
other_vars == <<pub_vars, later_vars, landscape_vars>>

\* the parameters and locals of the densifier and its caller
densify_locals ==
    <<heap, months_data, years_data, date_minimum, date_max, start_date,
      end_date, current_date, current_year, result, ret, prev_ret, calls,
      passed>>

vars == <<densify_vars, notebook_vars, other_vars>>

None == "None"

\* Python values of functions whose result is None or a value of some type
PyNone == [type |-> "NoneType"]
PyInt(n) == [type |-> "int", value |-> n]
PyStr(s) == [type |-> "str", value |-> s]

\* the publication notebook before its first cell has run
PubIdle ==
    /\ pub_metrics = <<>>
    /\ string_list = <<>>
    /\ threshold = 0
    /\ distinct_list = <<>>
    /\ idx_i = 0
    /\ idx_j = 0
    /\ distinct_ret = <<>>
    /\ return_to = "idle"

\* the package notebook has not run and no small function is called
LaterIdle ==
    /\ pkg_metrics = <<>>
    /\ call_args = <<>>
    /\ call_ret = PyNone
    /\ github_client = <<>>

\* project-git-metrics and seek-landscape-entries have not run
LandscapeIdle ==
    /\ df_projects = <<>>
    /\ target_project_html_urls = <<>>
    /\ results = <<>>
    /\ df_scrna_tools_records = <<>>
    /\ seen_url = {}
    /\ projects_yaml = <<>>

\* the other notebooks have not run
OthersIdle == PubIdle /\ LaterIdle /\ LandscapeIdle

-----------------------------------------------------------------------------
(* Bounds of the model *)

\* the calendar years the inputs are drawn from: FirstYear .. FirstYear + YearSpan
YearSpan == 1
\* the largest number of keys of a sparse input mapping
MaxKeys == 2

\* the first calendar year of that window
FirstYear == 2023
\* the largest number of results one source returns for a project
MaxResults == 2

Years == FirstYear .. (FirstYear + YearSpan)

-----------------------------------------------------------------------------
(* Strings and numbers *)

Digits == <<"0", "1", "2", "3", "4", "5", "6", "7", "8", "9">>

IsDigit(c) == \E i \in 1..10 : Digits[i] = c

DigitVal(c) == (CHOOSE i \in 1..10 : Digits[i] = c) - 1

DigitChar(n) == Digits[n + 1]

\* str(n) for an int n >= 0: decimal digits, no padding
RECURSIVE IntToStr(_)
IntToStr(n) ==
    IF n < 10 THEN <<DigitChar(n)>>
    ELSE Append(IntToStr(n \div 10), DigitChar(n % 10))

\* "%Y" of strftime for a year of four digits
Pad4(n) ==
    <<DigitChar(n \div 1000), DigitChar((n \div 100) % 10),
      DigitChar((n \div 10) % 10), DigitChar(n % 10)>>

\* "%m" of strftime: two digits, zero padded
Pad2(n) == <<DigitChar(n \div 10), DigitChar(n % 10)>>

UpperCase == <<"A", "B", "C", "D", "E", "F", "G", "H", "I", "J", "K", "L", "M",
               "N", "O", "P", "Q", "R", "S", "T", "U", "V", "W", "X", "Y", "Z">>

LowerCase == <<"a", "b", "c", "d", "e", "f", "g", "h", "i", "j", "k", "l", "m",
               "n", "o", "p", "q", "r", "s", "t", "u", "v", "w", "x", "y", "z">>

LowerChar(c) ==
    IF \E i \in 1..26 : UpperCase[i] = c
    THEN LowerCase[CHOOSE i \in 1..26 : UpperCase[i] = c]
    ELSE c

\* s.lower()
Lower(s) == [i \in 1..Len(s) |-> LowerChar(s[i])]

\* pathlib.Path(name).suffix of a file name without directories: from the
\* last "." on, unless that dot starts or ends the name
Suffix(name) ==
    LET dots == {i \in 1..Len(name) : name[i] = "."}
    IN IF dots = {} THEN <<>>
       ELSE LET last == CHOOSE i \in dots : \A j \in dots : j <= i
            IN IF last > 1 /\ last < Len(name)
               THEN SubSeq(name, last, Len(name))
               ELSE <<>>

\* the part of "org/name" after the "/"
AfterSlash(full) ==
    LET at == CHOOSE i \in 1..Len(full) : full[i] = "/"
    IN SubSeq(full, at + 1, Len(full))

-----------------------------------------------------------------------------
(* datetime *)

DateTime(y, m, d) == [year |-> y, month |-> m, day |-> d]

IsLeap(y) == (y % 4 = 0) /\ ((y % 100 # 0) \/ (y % 400 = 0))

DaysInMonth(y, m) ==
    IF m = 2 THEN (IF IsLeap(y) THEN 29 ELSE 28)
    ELSE IF m \in {4, 6, 9, 11} THEN 30 ELSE 31

\* a <= b on datetimes
DateLeq(a, b) ==
    \/ a.year < b.year
    \/ a.year = b.year /\ a.month < b.month
    \/ a.year = b.year /\ a.month = b.month /\ a.day <= b.day

\* datetime + timedelta(days=n), before the range check
RECURSIVE AddDays(_, _)
AddDays(d, n) ==
    IF d.day + n <= DaysInMonth(d.year, d.month)
    THEN DateTime(d.year, d.month, d.day + n)
    ELSE LET left == n - (DaysInMonth(d.year, d.month) - d.day) - 1
             nxt  == IF d.month = 12 THEN DateTime(d.year + 1, 1, 1)
                     ELSE DateTime(d.year, d.month + 1, 1)
         IN AddDays(nxt, left)

\* datetime.strptime(s, "%Y-%m"): the regex (\d\d\d\d)-(1[0-2]|0[1-9]|[1-9])
\* must match the whole string and the year must be at least 1
StrptimeYM(s) ==
    LET headOk == /\ Len(s) \in {6, 7}
                  /\ \A i \in 1..4 : IsDigit(s[i])
                  /\ s[5] = "-"
        year   == 1000 * DigitVal(s[1]) + 100 * DigitVal(s[2])
                  + 10 * DigitVal(s[3]) + DigitVal(s[4])
        monthOk == \/ Len(s) = 6 /\ IsDigit(s[6]) /\ DigitVal(s[6]) >= 1
                   \/ /\ Len(s) = 7
                      /\ \/ s[6] = "1" /\ s[7] \in {"0", "1", "2"}
                         \/ s[6] = "0" /\ IsDigit(s[7]) /\ DigitVal(s[7]) >= 1
        month  == IF Len(s) = 6 THEN DigitVal(s[6])
                  ELSE 10 * DigitVal(s[6]) + DigitVal(s[7])
    IN IF headOk /\ monthOk /\ year >= 1
       THEN [ok |-> TRUE, value |-> DateTime(year, month, 1)]
       ELSE [ok |-> FALSE, value |-> None]

\* d.strftime("%Y-%m")
StrftimeYM(d) == Pad4(d.year) \o <<"-">> \o Pad2(d.month)

-----------------------------------------------------------------------------
(* dict *)

EmptyDict == [k \in {} |-> 0]

\* d[k] = v
DictSet(d, k, v) == [x \in DOMAIN d \cup {k} |-> IF x = k THEN v ELSE d[x]]

\* a bug: keys d already holds keep their value (setdefault, not update)
DictUpdateKeepsOld(d, other) ==
    [x \in DOMAIN d \cup DOMAIN other |->
        IF x \in DOMAIN d THEN d[x] ELSE other[x]]

\* a bug: only the keys d already holds are updated (the input is clipped)
DictUpdateClipped(d, other) ==
    [x \in DOMAIN d |-> IF x \in DOMAIN other THEN other[x] ELSE d[x]]

\* d.update(other)
DictUpdate(d, other) ==
    [x \in DOMAIN d \cup DOMAIN other |->
        IF x \in DOMAIN other THEN other[x] ELSE d[x]]

-----------------------------------------------------------------------------
(* The arguments the densifier is called with *)

\* the months a period argument may name, and the months a sparse key may name
ArgMonths == {1, 2, 3, 12}
KeyMonths == {2, 12}
\* the counts a sparse mapping may hold
Counts == {1, 5}

DateArgs == {StrftimeYM(DateTime(y, m, 1)) : y \in Years, m \in ArgMonths}

MonthKeys == {StrftimeYM(DateTime(y, m, 1)) : y \in Years, m \in KeyMonths}

YearKeys == {IntToStr(y) : y \in Years}

SparseDicts(keys) ==
    UNION {[S -> Counts] : S \in {T \in SUBSET keys : Cardinality(T) <= MaxKeys}}

-----------------------------------------------------------------------------
(* add_missing_months *)

\* a bug: result is bound to the argument instead of a new dict
NewDictAliasesArgument(h) ==
    [heap |-> h, ref |-> IF pc = "m_enter" THEN months_data ELSE years_data]

\* result = {}: a new dict object on the heap, and the reference to it
NewDict(h) == [heap |-> Append(h, EmptyDict), ref |-> Len(h) + 1]

\* a caller binds the parameters of add_missing_months
CallAddMissingMonths ==
    /\ pc = "idle"
    /\ \E md \in SparseDicts(MonthKeys), dmin \in DateArgs, dmax \in DateArgs :
          /\ heap' = <<md>>
          /\ passed' = md
          /\ months_data' = 1
          /\ date_minimum' = dmin
          /\ date_max' = dmax
    /\ calls' = 1
    /\ pc' = "m_enter"
    /\ UNCHANGED <<years_data, start_date, end_date, current_date,
                   current_year, result, ret, prev_ret, raised>>
    /\ UNCHANGED <<notebook_vars, other_vars>>

\* start_date, end_date = strptime(...); current_date = start_date; result = {}
AddMissingMonthsEnter ==
    /\ pc = "m_enter"
    /\ LET s == StrptimeYM(date_minimum)
           e == StrptimeYM(date_max)
       IN IF s.ok /\ e.ok
          THEN /\ start_date' = s.value
               /\ end_date' = e.value
               /\ current_date' = s.value
               /\ heap' = NewDict(heap).heap
               /\ result' = NewDict(heap).ref
               /\ pc' = "m_while"
               /\ UNCHANGED raised
          ELSE /\ raised' = "ValueError"
               /\ pc' = "raised"
               /\ UNCHANGED <<start_date, end_date, current_date, heap, result>>
    /\ UNCHANGED <<months_data, years_data, date_minimum, date_max,
                   current_year, ret, prev_ret, calls, passed>>
    /\ UNCHANGED <<notebook_vars, other_vars>>

\* a bug: the date is not snapped back to the first day of its month
NextMonthStartNoSnap(d) == AddDays(d, 32)

\* a bug: 28 days are added before the date is snapped to day 1
NextMonthStartBy28(d) ==
    LET moved == AddDays(d, 28)
    IN DateTime(moved.year, moved.month, 1)

\* datetime(current_date.year, current_date.month, 1) after adding 32 days
NextMonthStart(d) ==
    LET moved == AddDays(d, 32)
    IN DateTime(moved.year, moved.month, 1)

\* a bug: the body runs once before the condition is tested
MonthsWhileCondDoWhile ==
    DateLeq(current_date, end_date) \/ current_date = start_date

\* the condition of: while current_date <= end_date
MonthsWhileCond == DateLeq(current_date, end_date)

\* one pass of the while loop
AddMissingMonthsLoop ==
    /\ pc = "m_while"
    /\ MonthsWhileCond
    /\ heap' = [heap EXCEPT ![result] = DictSet(@, StrftimeYM(current_date), 0)]
    /\ IF AddDays(current_date, 32).year > 9999
       THEN /\ raised' = "OverflowError"
            /\ pc' = "raised"
            /\ UNCHANGED current_date
       ELSE /\ current_date' = NextMonthStart(current_date)
            /\ UNCHANGED <<raised, pc>>
    /\ UNCHANGED <<months_data, years_data, date_minimum, date_max, start_date,
                   end_date, current_year, result, ret, prev_ret, calls, passed>>
    /\ UNCHANGED <<notebook_vars, other_vars>>

\* result.update(months_data); return result
AddMissingMonthsReturn ==
    /\ pc = "m_while"
    /\ ~MonthsWhileCond
    /\ heap' = [heap EXCEPT ![result] = DictUpdate(@, heap[months_data])]
    /\ ret' = result
    /\ pc' = "m_returned"
    /\ UNCHANGED <<months_data, years_data, date_minimum, date_max, start_date,
                   end_date, current_date, current_year, result, prev_ret, calls, passed,
                   raised>>
    /\ UNCHANGED <<notebook_vars, other_vars>>

\* the same caller calls again with the same arguments
RepeatAddMissingMonths ==
    /\ pc = "m_returned"
    /\ calls = 1
    /\ calls' = 2
    /\ prev_ret' = ret
    /\ pc' = "m_enter"
    /\ UNCHANGED <<heap, months_data, years_data, date_minimum, date_max,
                   start_date, end_date, current_date, current_year, result,
                   ret, passed, raised>>
    /\ UNCHANGED <<notebook_vars, other_vars>>

-----------------------------------------------------------------------------
(* add_missing_years *)

CallAddMissingYears ==
    /\ pc = "idle"
    /\ \E yd \in SparseDicts(YearKeys), dmin \in DateArgs, dmax \in DateArgs :
          /\ heap' = <<yd>>
          /\ passed' = yd
          /\ years_data' = 1
          /\ date_minimum' = dmin
          /\ date_max' = dmax
    /\ calls' = 1
    /\ pc' = "y_enter"
    /\ UNCHANGED <<months_data, start_date, end_date, current_date,
                   current_year, result, ret, prev_ret, raised>>
    /\ UNCHANGED <<notebook_vars, other_vars>>

\* start_date, end_date = int(strptime(...).year); current_year = start_date
AddMissingYearsEnter ==
    /\ pc = "y_enter"
    /\ LET s == StrptimeYM(date_minimum)
           e == StrptimeYM(date_max)
       IN IF s.ok /\ e.ok
          THEN /\ start_date' = s.value.year
               /\ end_date' = e.value.year
               /\ current_year' = s.value.year
               /\ heap' = NewDict(heap).heap
               /\ result' = NewDict(heap).ref
               /\ pc' = "y_while"
               /\ UNCHANGED raised
          ELSE /\ raised' = "ValueError"
               /\ pc' = "raised"
               /\ UNCHANGED <<start_date, end_date, current_year, heap, result>>
    /\ UNCHANGED <<months_data, years_data, date_minimum, date_max,
                   current_date, ret, prev_ret, calls, passed>>
    /\ UNCHANGED <<notebook_vars, other_vars>>

\* a bug: the last year is left out
YearsWhileCondStrict == current_year < end_date

\* the condition of: while current_year <= end_date
YearsWhileCond == current_year <= end_date

\* one pass of the while loop
AddMissingYearsLoop ==
    /\ pc = "y_while"
    /\ YearsWhileCond
    /\ heap' = [heap EXCEPT ![result] = DictSet(@, IntToStr(current_year), 0)]
    /\ current_year' = current_year + 1
    /\ UNCHANGED <<months_data, years_data, date_minimum, date_max, start_date,
                   end_date, current_date, result, ret, prev_ret, calls, passed, raised, pc>>
    /\ UNCHANGED <<notebook_vars, other_vars>>

\* result.update(years_data); return result
AddMissingYearsReturn ==
    /\ pc = "y_while"
    /\ ~YearsWhileCond
    /\ heap' = [heap EXCEPT ![result] = DictUpdate(@, heap[years_data])]
    /\ ret' = result
    /\ pc' = "y_returned"
    /\ UNCHANGED <<months_data, years_data, date_minimum, date_max, start_date,
                   end_date, current_date, current_year, result, prev_ret, calls, passed,
                   raised>>
    /\ UNCHANGED <<notebook_vars, other_vars>>

RepeatAddMissingYears ==
    /\ pc = "y_returned"
    /\ calls = 1
    /\ calls' = 2
    /\ prev_ret' = ret
    /\ pc' = "y_enter"
    /\ UNCHANGED <<heap, months_data, years_data, date_minimum, date_max,
                   start_date, end_date, current_date, current_year, result,
                   ret, passed, raised>>
    /\ UNCHANGED <<notebook_vars, other_vars>>

-----------------------------------------------------------------------------
(* The densifier called on its own: any sparse mapping, any two periods *)

InitDensify ==
    /\ heap = <<>>
    /\ months_data = None
    /\ years_data = None
    /\ date_minimum = None
    /\ date_max = None
    /\ start_date = None
    /\ end_date = None
    /\ current_date = None
    /\ current_year = None
    /\ result = None
    /\ ret = None
    /\ prev_ret = None
    /\ calls = 0
    /\ passed = None
    /\ raised = "none"
    /\ pc = "idle"
    /\ tgt_github_metrics = <<>>
    /\ comprehension = <<>>
    /\ searched = <<>>
    /\ loi_target_projects = <<>>
    /\ OthersIdle

NextDensify ==
    \/ CallAddMissingMonths
    \/ AddMissingMonthsEnter
    \/ AddMissingMonthsLoop
    \/ AddMissingMonthsReturn
    \/ RepeatAddMissingMonths
    \/ CallAddMissingYears
    \/ AddMissingYearsEnter
    \/ AddMissingYearsLoop
    \/ AddMissingYearsReturn
    \/ RepeatAddMissingYears

SpecDensify == InitDensify /\ [][NextDensify]_vars

-----------------------------------------------------------------------------
(* What GitHub and github-dependents-info may answer for a target project *)

\* the full name of the target project
CytoTableFullName == <<"c", "y", "t", "o", "m", "i", "n", "i", "n", "g",
                       "/", "C", "y", "t", "o", "T", "a", "b", "l", "e">>

\* the literal the code search compares with
AnalysisRepoName == <<"w", "a", "y", "s", "c", "i", "e", "n", "c", "e",
                      "/", "s", "o", "f", "t", "w", "a", "r", "e", "-",
                      "l", "a", "n", "d", "s", "c", "a", "p", "e", "-",
                      "a", "n", "a", "l", "y", "s", "i", "s">>

\* the analysis repository as GitHub spells it
AnalysisRepoAsListed == <<"W", "a", "y", "S", "c", "i", "e", "n", "c", "e",
                          "/", "s", "o", "f", "t", "w", "a", "r", "e", "-",
                          "l", "a", "n", "d", "s", "c", "a", "p", "e", "-",
                          "a", "n", "a", "l", "y", "s", "i", "s">>

\* other repositories, one of them also spelled in lower case
ToolX == <<"o", "r", "g", "A", "/", "t", "o", "o", "l", "X">>
ToolXLowerCased == <<"o", "r", "g", "a", "/", "t", "o", "o", "l", "x">>
ToolY == <<"o", "r", "g", "B", "/", "t", "o", "o", "l", "Y">>
ToolZ == <<"o", "r", "g", "C", "/", "t", "o", "o", "l", "Z">>

\* names of files a code search hit may be in
PyFile == <<"u", "s", "e", ".", "p", "y">>
NotebookFile == <<"d", "e", "m", "o", ".", "i", "p", "y", "n", "b">>
ReadmeFile == <<"R", "E", "A", "D", "M", "E", ".", "m", "d">>

\* the suffixes the code search keeps
SuffixPy == <<".", "p", "y">>
SuffixIpynb == <<".", "i", "p", "y", "n", "b">>

\* github_client.get_repo(...) for each project of loi_target_projects
TargetRepos ==
    <<[full_name |-> CytoTableFullName,
       name |-> AfterSlash(CytoTableFullName),
       created_at |-> DateTime(FirstYear + 1, 1, 1)]>>

PycytominerFullName == <<"c", "y", "t", "o", "m", "i", "n", "i", "n", "g", "/",
                         "p", "y", "c", "y", "t", "o", "m", "i", "n", "e", "r">>
CytoSnakeFullName == <<"W", "a", "y", "S", "c", "i", "e", "n", "c", "e", "/",
                       "C", "y", "t", "o", "S", "n", "a", "k", "e">>

\* github_client.get_repo(...) for a batch of two other projects
BatchRepos ==
    <<[full_name |-> PycytominerFullName,
       name |-> AfterSlash(PycytominerFullName),
       created_at |-> DateTime(FirstYear, 11, 1)],
      [full_name |-> CytoSnakeFullName,
       name |-> AfterSlash(CytoSnakeFullName),
       created_at |-> DateTime(FirstYear, 12, 1)]>>

\* current_year_month = current_datetime.strftime("%Y-%m")
CurrentYearMonth == StrftimeYM(DateTime(FirstYear + 1, 1, 1))

\* a datetime with a time of day and a tzinfo, "naive" when it has none
DateTimeAt(y, m, d, H, M, S, tz) ==
    [year |-> y, month |-> m, day |-> d,
     hour |-> H, minute |-> M, second |-> S, tzinfo |-> tz]

\* "%Z" of strftime: the name of the time zone, empty for a naive datetime
TzName(tz) == IF tz = "UTC" THEN <<"U", "T", "C">> ELSE <<>>

\* dt.strftime("%Y-%m-%d %H:%M:%S %Z")
StrftimeTimestamp(dt) ==
    Pad4(dt.year) \o <<"-">> \o Pad2(dt.month) \o <<"-">> \o Pad2(dt.day)
    \o <<" ">> \o Pad2(dt.hour) \o <<":">> \o Pad2(dt.minute)
    \o <<":">> \o Pad2(dt.second) \o <<" ">> \o TzName(dt.tzinfo)

\* the number two digits stand for
TwoDigits(s, at) == DigitVal(s[at]) * 10 + DigitVal(s[at + 1])

\* datetime.strptime(s, "%Y-%m-%d %H:%M:%S %Z") of a string of the width
\* strftime gives: ok is FALSE where strptime raises ValueError, as it does
\* when no time zone name follows the time
StrptimeTimestamp(s) ==
    IF /\ Len(s) = 23
       /\ \A k \in {1, 2, 3, 4, 6, 7, 9, 10, 12, 13, 15, 16, 18, 19} :
             IsDigit(s[k])
       /\ s[5] = "-" /\ s[8] = "-" /\ s[11] = " "
       /\ s[14] = ":" /\ s[17] = ":" /\ s[20] = " "
       /\ Lower(SubSeq(s, 21, 23)) \in {<<"u", "t", "c">>, <<"g", "m", "t">>}
    THEN LET y == TwoDigits(s, 1) * 100 + TwoDigits(s, 3)
             m == TwoDigits(s, 6)
             d == TwoDigits(s, 9)
         IN IF /\ y >= 1 /\ m \in 1..12 /\ d >= 1 /\ d <= DaysInMonth(y, m)
               /\ TwoDigits(s, 12) <= 23 /\ TwoDigits(s, 15) <= 59
               /\ TwoDigits(s, 18) <= 61
            THEN [ok |-> TRUE,
                  value |-> DateTimeAt(y, m, d, TwoDigits(s, 12),
                                       TwoDigits(s, 15), TwoDigits(s, 18),
                                       "naive")]
            ELSE [ok |-> FALSE]
    ELSE [ok |-> FALSE]

\* the moments at which a repository was starred: the last second of a year
\* and the first second of the next
StarredAtYearEnd == DateTimeAt(FirstYear, 12, 31, 23, 59, 59, "UTC")
StarredAtYearStart == DateTimeAt(FirstYear + 1, 1, 1, 0, 0, 0, "UTC")

\* moments outside the months from the creation of a repository to the
\* current month, and a moment without tzinfo
StarredEarly == DateTimeAt(FirstYear, 10, 15, 12, 0, 0, "UTC")
StarredLate == DateTimeAt(FirstYear + 2, 2, 1, 8, 30, 0, "UTC")
StarredNaive == DateTimeAt(FirstYear, 12, 24, 18, 0, 0, "naive")

\* what repo.get_stargazers_with_dates() may yield for a repository
StargazersWithDates(repo) ==
    IF repo.full_name = CytoTableFullName THEN {<<>>}
    ELSE {<<>>, <<StarredAtYearEnd>>, <<StarredAtYearEnd, StarredAtYearStart>>,
          <<StarredAtYearEnd, StarredAtYearEnd>>,
          <<StarredEarly, StarredAtYearEnd>>, <<StarredAtYearStart, StarredLate>>,
          <<StarredNaive>>}

Hit(full, file, isFork) ==
    [repository |-> [full_name |-> full, fork |-> isFork], name |-> file]

\* the hits github_client.search_code may return
CodeSearchHits ==
    {Hit(CytoTableFullName, PyFile, FALSE),
     Hit(AnalysisRepoAsListed, NotebookFile, FALSE),
     Hit(ToolX, PyFile, FALSE),
     Hit(ToolY, NotebookFile, FALSE),
     Hit(ToolY, ReadmeFile, FALSE),
     Hit(ToolZ, PyFile, TRUE)}

\* the repository names github-dependents-info may list
GraphNames ==
    {CytoTableFullName, AnalysisRepoAsListed, ToolX, ToolXLowerCased, ToolZ}

\* the lists of at most MaxResults elements of S
ListsOf(S) == UNION {[1..n -> S] : n \in 0..MaxResults}

\* what github_client.search_code may return for a repository
SearchCode(repo) ==
    IF repo.full_name = CytoTableFullName THEN ListsOf(CodeSearchHits)
    ELSE {<<>>}

-----------------------------------------------------------------------------
(* list, set and dict expressions of the notebook *)

\* set(list): the elements are added one after the other
RECURSIVE SetOfList(_)
SetOfList(l) ==
    IF l = <<>> THEN {}
    ELSE SetOfList(SubSeq(l, 1, Len(l) - 1)) \cup {l[Len(l)]}

\* list(set): the lists that hold each element of S once, in any order
ListsOfSet(S) ==
    {l \in [1..Cardinality(S) -> S] : \A e \in S : \E i \in DOMAIN l : l[i] = e}

\* [f(x) for x in l]
Names(repos) == [i \in 1..Len(repos) |-> repos[i].name]

\* a bug: the new record holds the new fields only
DictWithNewFieldsOnly(project, fields) == fields

\* dict(project, **fields)
DictWith(project, fields) == DictUpdate(project, fields)

-----------------------------------------------------------------------------
(* cell "gather targeted data from GitHub" *)

\* the condition of the code search comprehension
KeepHit(code, repo) ==
    /\ Lower(code.repository.full_name)
           \notin {Lower(repo.full_name), AnalysisRepoName}
    /\ Suffix(code.name) \in {SuffixPy, SuffixIpynb}
    /\ ~code.repository.fork

\* [code.repository.full_name for code in hits if ...]
UsedByNames(hits, repo) ==
    LET kept == SelectSeq(hits, LAMBDA code : KeepHit(code, repo))
    IN [i \in 1..Len(kept) |-> kept[i].repository.full_name]

\* repo.get_contributors(): CytoTable has two contributors, every other
\* repository one
GetContributors(repo) ==
    IF repo.full_name = CytoTableFullName
    THEN <<[id |-> 1, name |-> <<"a">>, login |-> <<"a">>],
           [id |-> 2, name |-> <<"b">>, login |-> <<"b">>]>>
    ELSE <<[id |-> 1, name |-> <<"a">>, login |-> <<"a">>]>>

\* the project for which the running comprehension builds the next record
Current == Len(comprehension) + 1

\* a bug: the comprehension ends after the record of the first project
FinishRecordOfFirstOnly(record, nextCell) ==
    /\ tgt_github_metrics' = Append(comprehension, record)
    /\ comprehension' = <<>>
    /\ pc' = nextCell

\* the record of one project; when it was the last one the cell binds
\* tgt_github_metrics to the new list
FinishRecord(record, nextCell) ==
    IF Current = Len(loi_target_projects)
    THEN /\ tgt_github_metrics' = Append(comprehension, record)
         /\ comprehension' = <<>>
         /\ pc' = nextCell
    ELSE /\ comprehension' = Append(comprehension, record)
         /\ UNCHANGED <<tgt_github_metrics, pc>>

GatherGitHubData ==
    /\ pc = "gather"
    /\ LET repo == loi_target_projects[Current]
       IN \E hits \in SearchCode(repo), stars \in StargazersWithDates(repo) :
            \E usedBy \in ListsOfSet(SetOfList(UsedByNames(hits, repo))) :
               /\ searched' = Append(searched, hits)
               /\ FinishRecord(
                     ("Project Name" :> repo.name)
                     @@ ("GitHub Repo Full Name" :> repo.full_name)
                     @@ ("GitHub Repo Created Month"
                            :> StrftimeYM(repo.created_at))
                     @@ ("GitHub Stars by Date"
                            :> [k \in DOMAIN stars |->
                                   StrftimeTimestamp(stars[k])])
                     @@ ("GitHub Code Search Used By" :> usedBy)
                     @@ ("GitHub Contributors" :> GetContributors(repo)),
                     "dependents")
    /\ UNCHANGED <<densify_vars_but_pc, loi_target_projects, other_vars>>

-----------------------------------------------------------------------------
(* cell "gather dependents data from GitHub" *)

\* json.loads(stdout of github-dependents-info --repo ... --json)
DependentsJson(names) ==
    ("all_public_dependent_repos" :> [i \in 1..Len(names) |-> [name |-> names[i]]])
    @@ ("total_dependents_number" :> Len(names))

\* outputs without the keys the notebook reads
MalformedDependentsJson ==
    {EmptyDict,
     "all_public_dependent_repos" :> <<>>,
     "total_dependents_number" :> 0}

\* what github-dependents-info may print for a project
DependentsInfo(project) ==
    IF project["GitHub Repo Full Name"] = CytoTableFullName
    THEN {DependentsJson(names) : names \in ListsOf(GraphNames)}
         \cup MalformedDependentsJson
    ELSE {DependentsJson(<<>>), DependentsJson(<<ToolX>>), EmptyDict}

GatherDependents ==
    /\ pc = "dependents"
    /\ LET project == tgt_github_metrics[Current]
       IN \E dependents \in DependentsInfo(project) :
            FinishRecord(
                DictWith(project, "GitHub Dependents" :> dependents),
                "densify")
    /\ UNCHANGED <<densify_vars_but_pc, searched, loi_target_projects, other_vars>>

-----------------------------------------------------------------------------
(* find_average, find_median *)

\* the greatest common divisor of a >= 0 and b >= 0, not both 0
RECURSIVE Gcd(_, _)
Gcd(a, b) == IF b = 0 THEN a ELSE Gcd(b, a % b)

\* a float that is the quotient of two integers, n >= 0 and d > 0, in lowest
\* terms
PyFloat(n, d) ==
    [type |-> "float", num |-> n \div Gcd(n, d), den |-> d \div Gcd(n, d)]

\* a bug: the quotient is rounded down to an integer
FloorDiv(n, d) == PyFloat(n \div d, 1)

\* n / d of two ints
TrueDiv(n, d) == PyFloat(n, d)

\* sum(nums)
RECURSIVE Sum(_)
Sum(nums) == IF nums = <<>> THEN 0 ELSE nums[1] + Sum(Tail(nums))

\* the list with x put before the first element that is larger than x
RECURSIVE Insert(_, _)
Insert(x, sortedList) ==
    IF sortedList = <<>> THEN <<x>>
    ELSE IF x <= sortedList[1] THEN <<x>> \o sortedList
    ELSE <<sortedList[1]>> \o Insert(x, Tail(sortedList))

\* a bug: the data is left in the order in which it came
SortedAsGiven(data) == data

\* sorted(data)
RECURSIVE Sorted(_)
Sorted(data) ==
    IF data = <<>> THEN <<>> ELSE Insert(data[1], Sorted(Tail(data)))

\* statistics.median(data) of a non-empty list of ints: the middle element
\* of the sorted data, or half the sum of the two middle elements
StatisticsMedian(data) ==
    LET sortedData == Sorted(data)
        n == Len(sortedData)
        half == n \div 2
    IN IF n % 2 = 1 THEN PyInt(sortedData[half + 1])
       ELSE TrueDiv(sortedData[half] + sortedData[half + 1], 2)

\* find_average = lambda nums: sum(nums) / len(nums) if len(nums) > 0 else None
FindAverage(nums) ==
    IF Len(nums) > 0 THEN TrueDiv(Sum(nums), Len(nums)) ELSE PyNone

\* find_median = lambda nums: statistics.median(nums) if len(nums) > 0 else None
FindMedian(nums) ==
    IF Len(nums) > 0 THEN StatisticsMedian(nums) ELSE PyNone

-----------------------------------------------------------------------------
(* cell that calls add_missing_months and add_missing_years *)

\* date_object.strftime("%Y")
StrftimeY(d) == Pad4(d.year)

\* a bug: a month is counted once however many dates fall in it
CountByMonthOnce(dates) ==
    [key \in {StrftimeYM(dates[k]) : k \in DOMAIN dates} |-> 1]

\* {date_object.strftime("%Y-%m"): sum(1 for d in ... if d.strftime("%Y-%m")
\*  == date_object.strftime("%Y-%m")) for date_object in ...}, for dates that
\* are parsed already
CountByMonth(dates) ==
    [key \in {StrftimeYM(dates[k]) : k \in DOMAIN dates} |->
        Cardinality({k \in DOMAIN dates : StrftimeYM(dates[k]) = key})]

\* the same with strftime("%Y")
CountByYear(dates) ==
    [key \in {StrftimeY(dates[k]) : k \in DOMAIN dates} |->
        Cardinality({k \in DOMAIN dates : StrftimeY(dates[k]) = key})]

\* the while loop of add_missing_months, from current_date on
RECURSIVE ZeroFilledMonths(_, _, _)
ZeroFilledMonths(current, end, filled) ==
    IF DateLeq(current, end)
    THEN ZeroFilledMonths(NextMonthStart(current), end,
                          DictSet(filled, StrftimeYM(current), 0))
    ELSE filled

\* what a call of add_missing_months returns or raises
AddMissingMonths(md, dmin, dmax) ==
    LET s == StrptimeYM(dmin)
        e == StrptimeYM(dmax)
    IN IF s.ok /\ e.ok
       THEN [raised |-> "none",
             value |-> DictUpdate(ZeroFilledMonths(s.value, e.value, EmptyDict),
                                  md)]
       ELSE [raised |-> "ValueError"]

\* the while loop of add_missing_years, from current_year on
RECURSIVE ZeroFilledYears(_, _, _)
ZeroFilledYears(current, end, filled) ==
    IF current <= end
    THEN ZeroFilledYears(current + 1, end, DictSet(filled, IntToStr(current), 0))
    ELSE filled

\* what a call of add_missing_years returns or raises
AddMissingYears(yd, dmin, dmax) ==
    LET s == StrptimeYM(dmin)
        e == StrptimeYM(dmax)
    IN IF s.ok /\ e.ok
       THEN [raised |-> "none",
             value |-> DictUpdate(
                          ZeroFilledYears(s.value.year, e.value.year, EmptyDict),
                          yd)]
       ELSE [raised |-> "ValueError"]

\* an exception leaves a cell of the GitHub notebook: the comprehension and
\* its list are given up and tgt_github_metrics is not bound again
CellRaises(exception) ==
    /\ raised' = exception
    /\ pc' = "raised"
    /\ comprehension' = <<>>
    /\ UNCHANGED tgt_github_metrics

DensifyStars ==
    /\ pc = "densify"
    /\ LET project == tgt_github_metrics[Current]
           timestamps == project["GitHub Stars by Date"]
           parsed == [k \in DOMAIN timestamps |->
                         StrptimeTimestamp(timestamps[k])]
       IN IF \E k \in DOMAIN parsed : ~parsed[k].ok
          THEN CellRaises("ValueError")
          ELSE LET dates == [k \in DOMAIN parsed |-> parsed[k].value]
                   byMonth == AddMissingMonths(
                                  CountByMonth(dates),
                                  project["GitHub Repo Created Month"],
                                  CurrentYearMonth)
                   byYear == AddMissingYears(
                                  CountByYear(dates),
                                  project["GitHub Repo Created Month"],
                                  CurrentYearMonth)
               IN IF byMonth.raised # "none" THEN CellRaises(byMonth.raised)
                  ELSE IF byYear.raised # "none" THEN CellRaises(byYear.raised)
                  ELSE /\ FinishRecord(
                             DictWith(project,
                                 ("GitHub Stargazers Count by Month"
                                     :> byMonth.value)
                                 @@ ("GitHub Stargazers Count by Year"
                                     :> byYear.value)),
                             "counts")
                       /\ UNCHANGED raised
    /\ UNCHANGED <<densify_locals, searched, loi_target_projects, other_vars>>

-----------------------------------------------------------------------------
(* cell "add calculations for ease of analysis": the dependents counts *)

\* a bug: the two lists are counted without removing repeats
TotalDependentsCountNoSet(usedBy, repos) == Len(usedBy \o Names(repos))

\* a bug: only the code search list is counted
TotalDependentsCountCodeSearchOnly(usedBy, repos) ==
    Cardinality(SetOfList(usedBy))

\* set(usedBy + [repo["name"] for repo in repos])
TotalDependents(usedBy, repos) == SetOfList(usedBy \o Names(repos))

\* len(list(set(...)))
TotalDependentsCount(usedBy, repos) ==
    Cardinality(TotalDependents(usedBy, repos))

\* [count for count in d.values()]: the values of the dict, key by key
RECURSIVE DictValues(_)
DictValues(d) ==
    IF DOMAIN d = {} THEN <<>>
    ELSE LET key == CHOOSE k \in DOMAIN d : TRUE
         IN <<d[key]>> \o DictValues([k \in DOMAIN d \ {key} |-> d[k]])

\* d[key] raises KeyError when the dict has no such key
AddDependentsCounts ==
    /\ pc = "counts"
    /\ LET project == tgt_github_metrics[Current]
           usedBy == project["GitHub Code Search Used By"]
           dependents == project["GitHub Dependents"]
           byMonth == DictValues(project["GitHub Stargazers Count by Month"])
           byYear == DictValues(project["GitHub Stargazers Count by Year"])
       IN IF \/ "total_dependents_number" \notin DOMAIN dependents
             \/ "all_public_dependent_repos" \notin DOMAIN dependents
          THEN CellRaises("KeyError")
          ELSE /\ FinishRecord(
                     DictWith(project,
                         ("GitHub Contributor Total Count"
                              :> Len(project["GitHub Contributors"]))
                         @@ ("GitHub Dependency Graph Dependents Count"
                              :> dependents["total_dependents_number"])
                         @@ ("GitHub Code Search Dependents Count"
                              :> Len(usedBy))
                         @@ ("GitHub Total Dependents Count"
                              :> TotalDependentsCount(
                                    usedBy,
                                    dependents["all_public_dependent_repos"]))
                         @@ ("GitHub Stargazers Count by Month Average"
                              :> FindAverage(byMonth))
                         @@ ("GitHub Stargazers Count by Month Median"
                              :> FindMedian(byMonth))
                         @@ ("GitHub Stargazers Count by Year Average"
                              :> FindAverage(byYear))
                         @@ ("GitHub Stargazers Count by Year Median"
                              :> FindMedian(byYear))),
                     "done")
               /\ UNCHANGED raised
    /\ UNCHANGED <<densify_locals, searched, loi_target_projects, other_vars>>

-----------------------------------------------------------------------------
(* The cells that gather and count the dependents of the target projects *)

InitDependents ==
    /\ heap = <<>>
    /\ months_data = None
    /\ years_data = None
    /\ date_minimum = None
    /\ date_max = None
    /\ start_date = None
    /\ end_date = None
    /\ current_date = None
    /\ current_year = None
    /\ result = None
    /\ ret = None
    /\ prev_ret = None
    /\ calls = 0
    /\ passed = None
    /\ raised = "none"
    /\ pc = "gather"
    /\ tgt_github_metrics = <<>>
    /\ comprehension = <<>>
    /\ searched = <<>>
    /\ loi_target_projects = TargetRepos
    /\ OthersIdle

NextDependents ==
    \/ GatherGitHubData
    \/ GatherDependents
    \/ DensifyStars
    \/ AddDependentsCounts

SpecDependents == InitDependents /\ [][NextDependents]_vars

-----------------------------------------------------------------------------
(* The same cells for a batch of two projects *)

InitBatch ==
    /\ heap = <<>>
    /\ months_data = None
    /\ years_data = None
    /\ date_minimum = None
    /\ date_max = None
    /\ start_date = None
    /\ end_date = None
    /\ current_date = None
    /\ current_year = None
    /\ result = None
    /\ ret = None
    /\ prev_ret = None
    /\ calls = 0
    /\ passed = None
    /\ raised = "none"
    /\ pc = "gather"
    /\ tgt_github_metrics = <<>>
    /\ comprehension = <<>>
    /\ searched = <<>>
    /\ loi_target_projects = BatchRepos
    /\ OthersIdle

SpecBatch == InitBatch /\ [][NextDependents]_vars

-----------------------------------------------------------------------------
(* What the claims about the densifier speak of *)

\* the two period arguments as calendar months
ArgMinimum == StrptimeYM(date_minimum).value
ArgMax == StrptimeYM(date_max).value

\* a calendar month as a number of months
MonthOrd(d) == d.year * 12 + (d.month - 1)

\* the name 'YYYY-MM' of the month numbered i
MonthName(i) == Pad4(i \div 12) \o <<"-">> \o Pad2((i % 12) + 1)

\* the names of the calendar months of the closed range [date_minimum, date_max]
MonthsOfRange == {MonthName(i) : i \in MonthOrd(ArgMinimum) .. MonthOrd(ArgMax)}

\* the names 'YYYY' of the calendar years from date_minimum's to date_max's
YearsOfRange == {Pad4(y) : y \in ArgMinimum.year .. ArgMax.year}

MonthsReturned == pc = "m_returned"
YearsReturned == pc = "y_returned"
Returned == MonthsReturned \/ YearsReturned

\* the range the function that returned was asked to fill
PeriodsOfRange == IF MonthsReturned THEN MonthsOfRange ELSE YearsOfRange

\* the range is empty: the start period is after the end period
RangeIsEmpty ==
    IF pc \in {"m_enter", "m_while", "m_returned"}
    THEN MonthOrd(ArgMinimum) > MonthOrd(ArgMax)
    ELSE ArgMinimum.year > ArgMax.year

\* C1: when date_minimum <= date_max, the mapping add_missing_months returns
\* has an entry for every calendar month of the closed range, whose value is
\* the sparse value when the month is a key of months_data and 0 otherwise.
C1_DenseMonthValues ==
    MonthsReturned =>
        \A k \in MonthsOfRange :
            /\ k \in DOMAIN heap[ret]
            /\ heap[ret][k] = IF k \in DOMAIN passed THEN passed[k] ELSE 0

\* sparse {'2023-02': 5}, start '2023-01', end '2023-03' gives
\* {'2023-01': 0, '2023-02': 5, '2023-03': 0}
C1_Witness ==
    /\ MonthsReturned
    /\ date_minimum = <<"2", "0", "2", "3", "-", "0", "1">>
    /\ date_max = <<"2", "0", "2", "3", "-", "0", "3">>
    /\ passed = (<<"2", "0", "2", "3", "-", "0", "2">> :> 5)
    /\ heap[ret] = (<<"2", "0", "2", "3", "-", "0", "1">> :> 0)
                   @@ (<<"2", "0", "2", "3", "-", "0", "2">> :> 5)
                   @@ (<<"2", "0", "2", "3", "-", "0", "3">> :> 0)

\* C2 as stated: with the start period after the end period, the returned
\* mapping is empty whatever the sparse input holds.
C2_EmptyWhateverInput ==
    (Returned /\ RangeIsEmpty) => heap[ret] = EmptyDict

\* C2 as amended: with the start period after the end period no period is
\* zero-filled and no error is raised: the returned mapping holds exactly the
\* entries of the sparse input, so it is empty when the sparse input is empty.
C2_EmptyRangeAddsNothing ==
    /\ (pc \in {"m_enter", "m_while", "y_enter", "y_while", "raised"}
            /\ RangeIsEmpty) => (raised = "none" /\ pc # "raised")
    /\ (Returned /\ RangeIsEmpty) => (raised = "none" /\ heap[ret] = passed)

C2_Witness ==
    /\ Returned
    /\ RangeIsEmpty
    /\ passed # EmptyDict
    /\ heap[ret] = passed

\* C3 as stated: the key set of the mapping add_missing_months returns is
\* exactly the set of calendar months of the closed range.
C3_KeysAreExactlyTheRange ==
    MonthsReturned => DOMAIN heap[ret] = MonthsOfRange

\* C3 as amended: the key set is exactly the months of the closed range
\* together with the keys of months_data: no month of the range is missing,
\* and a key outside the range is there only as a key of months_data.
C3_KeysAreRangeAndInput ==
    MonthsReturned => DOMAIN heap[ret] = MonthsOfRange \cup DOMAIN passed

\* a range across a year change, with a sparse key before the range
C3_Witness ==
    /\ MonthsReturned
    /\ date_minimum = <<"2", "0", "2", "3", "-", "1", "2">>
    /\ date_max = <<"2", "0", "2", "4", "-", "0", "3">>
    /\ <<"2", "0", "2", "3", "-", "0", "2">> \in DOMAIN passed
    /\ Cardinality(DOMAIN heap[ret]) = 5

\* C4: every key of the sparse input outside the range is in the result with
\* its input value, and no error is raised for it.
C4_OutOfRangePassedThrough ==
    /\ Returned =>
          \A k \in DOMAIN passed \ PeriodsOfRange :
              k \in DOMAIN heap[ret] /\ heap[ret][k] = passed[k]
    /\ raised = "none"

C4_Witness ==
    /\ Returned
    /\ ~RangeIsEmpty
    /\ \E k \in DOMAIN passed \ PeriodsOfRange : heap[ret][k] = 5

\* C5: add_missing_years returns a key 'YYYY' for every year from the year of
\* date_minimum through the year of date_max, with the value of years_data
\* where it has that year and 0 otherwise, and every entry of years_data is
\* in the result with its value.
C5_DenseYearValues ==
    YearsReturned =>
        /\ \A k \in YearsOfRange :
              /\ k \in DOMAIN heap[ret]
              /\ heap[ret][k] = IF k \in DOMAIN passed THEN passed[k] ELSE 0
        /\ \A k \in DOMAIN passed :
              k \in DOMAIN heap[ret] /\ heap[ret][k] = passed[k]

C5_Witness ==
    /\ YearsReturned
    /\ date_minimum = <<"2", "0", "2", "3", "-", "1", "2">>
    /\ date_max = <<"2", "0", "2", "4", "-", "0", "1">>
    /\ heap[ret] = (<<"2", "0", "2", "3">> :> 0) @@ (<<"2", "0", "2", "4">> :> 5)

\* the reference of the argument of the function that is running
ArgumentRef == IF pc \in {"m_enter", "m_while", "m_returned"}
               THEN months_data ELSE years_data

\* C6: the mapping passed is unchanged at every step of the call and after
\* it, the result is a dict object other than the argument, and a second call
\* with the same arguments returns a new object equal to the first result.
C6_NoSideEffect ==
    /\ pc # "idle" => heap[ArgumentRef] = passed
    /\ Returned => ret # ArgumentRef
    /\ (Returned /\ calls = 2) => (ret # prev_ret /\ heap[ret] = heap[prev_ret])

C6_Witness ==
    /\ Returned
    /\ calls = 2
    /\ ~RangeIsEmpty
    /\ passed # EmptyDict
    /\ DOMAIN heap[ret] # DOMAIN passed

-----------------------------------------------------------------------------
(* What the claims about the dependents speak of *)

Counted == pc = "done"

Projects == 1..Len(tgt_github_metrics)

FullNameOf(i) == tgt_github_metrics[i]["GitHub Repo Full Name"]
UsedByOf(i) == tgt_github_metrics[i]["GitHub Code Search Used By"]
GraphReposOf(i) ==
    tgt_github_metrics[i]["GitHub Dependents"]["all_public_dependent_repos"]
TotalCountOf(i) == tgt_github_metrics[i]["GitHub Total Dependents Count"]

\* the merged dependent set the total count is the size of
MergedOf(i) == TotalDependents(UsedByOf(i), GraphReposOf(i))

\* the identifiers either source lists for the project
ListedBySearch(i) == {UsedByOf(i)[k] : k \in 1..Len(UsedByOf(i))}
ListedByGraph(i) == {GraphReposOf(i)[k].name : k \in 1..Len(GraphReposOf(i))}

\* C7: the project's own full name and the analysis repository's identifier
\* are never members of the project's merged dependent set, whichever source
\* reports them.
C7_SelfNeverDependent ==
    Counted =>
        \A i \in Projects :
            /\ FullNameOf(i) \notin MergedOf(i)
            /\ AnalysisRepoName \notin MergedOf(i)
            /\ AnalysisRepoAsListed \notin MergedOf(i)

\* C8: 'GitHub Total Dependents Count' is the number of distinct identifier
\* strings in the union of the code-search list and the names of
\* 'all_public_dependent_repos'.
C8_CountIsDistinctUnion ==
    Counted =>
        \A i \in Projects :
            TotalCountOf(i) = Cardinality(ListedBySearch(i) \cup ListedByGraph(i))

\* code search orgA/toolX and orgB/toolY, graph orgA/toolX and orgC/toolZ:
\* the count is 3
C8_Witness ==
    /\ Counted
    /\ ListedBySearch(1) = {ToolX, ToolY}
    /\ Names(GraphReposOf(1)) = <<ToolX, ToolZ>>
    /\ TotalCountOf(1) = 3

\* C9: merging the code-search list A twice with the graph list B, or A with
\* B twice, gives the same dependent set and the same count as merging A
\* with B once.
C9_MergeIdempotent ==
    Counted =>
        \A i \in Projects :
            LET A == UsedByOf(i)
                B == GraphReposOf(i)
            IN /\ TotalDependents(A \o A, B) = TotalDependents(A, B)
               /\ TotalDependents(A, B \o B) = TotalDependents(A, B)
               /\ TotalDependentsCount(A \o A, B) = TotalCountOf(i)
               /\ TotalDependentsCount(A, B \o B) = TotalCountOf(i)

C9_Witness ==
    /\ Counted
    /\ Len(UsedByOf(1)) = 2
    /\ Len(GraphReposOf(1)) = 2
    /\ TotalCountOf(1) = 3
    /\ TotalDependentsCount(UsedByOf(1) \o UsedByOf(1), GraphReposOf(1)) = 3

\* C10: identifiers are compared ignoring letter case: no member of the
\* merged dependent set equals the project's full name or the analysis
\* repository's name ignoring case, and identifiers that differ only in
\* letter case are one entry, spelled as the code search spelled it.
C10_CaseInsensitiveSet ==
    Counted =>
        \A i \in Projects :
            /\ \A id \in MergedOf(i) :
                  Lower(id) \notin {Lower(FullNameOf(i)), AnalysisRepoName}
            /\ \A a \in MergedOf(i), b \in MergedOf(i) :
                  Lower(a) = Lower(b) => a = b
            /\ \A a \in ListedBySearch(i), b \in MergedOf(i) :
                  Lower(a) = Lower(b) => b = a

-----------------------------------------------------------------------------
(***************************************************************************)
(* notebooks/cytomining-ecosystem/gather-targeted-publication-mentions.py  *)
(***************************************************************************)

\* the longest list of titles return_distinct_values_by_threshold is called with
MaxTitles == 3

\* threshold=90 of the record linkage cell
LinkThreshold == 90

\* titles of articles: two that differ in one character, one that differs in
\* letter case, one that differs in its last word
PaperA == <<"P", "a", "p", "e", "r", " ", "A">>
PaperADot == <<"P", "a", "p", "e", "r", " ", "A", ".">>
PaperALowerCased == <<"p", "a", "p", "e", "r", " ", "a">>
PaperB == <<"P", "a", "p", "e", "r", " ", "B">>

Titles == {PaperA, PaperADot, PaperALowerCased, PaperB}

\* the string_list arguments
TitleLists == UNION {[1..n -> Titles] : n \in 0..MaxTitles}

\* the threshold arguments
Thresholds == {80, LinkThreshold, 100}

\* max(a, b)
Max(a, b) == IF a >= b THEN a ELSE b

\* one row of the table of the lengths of the longest common subsequences:
\* row[k + 1] is the length for the prefix of s1 that ends with c and the
\* first k characters of s2; prev is the row of the prefix without c
RECURSIVE LcsRow(_, _, _, _)
LcsRow(prev, c, s2, row) ==
    IF Len(row) = Len(s2) + 1 THEN row
    ELSE LET k == Len(row)
             v == IF c = s2[k] THEN prev[k] + 1
                  ELSE Max(prev[k + 1], row[k])
         IN LcsRow(prev, c, s2, Append(row, v))

\* the row of the table for the first n characters of s1
RECURSIVE LcsRows(_, _, _)
LcsRows(s1, s2, n) ==
    IF n = 0 THEN [k \in 1..(Len(s2) + 1) |-> 0]
    ELSE LcsRow(LcsRows(s1, s2, n - 1), s1[n], s2, <<0>>)

\* the length of the longest common subsequence of s1 and s2
LcsLength(s1, s2) == LcsRows(s1, s2, Len(s1))[Len(s2) + 1]

\* round(100 * n / d) of Python: to the nearest integer, halves to the even one
RoundPercent(n, d) ==
    LET q == (100 * n) \div d
        r == (100 * n) % d
    IN IF 2 * r < d THEN q
       ELSE IF 2 * r > d THEN q + 1
       ELSE IF q % 2 = 0 THEN q ELSE q + 1

\* fuzz.ratio(s1, s2) of two non-empty strings: the similarity of the
\* Levenshtein distance whose substitutions cost two, as a rounded percentage:
\* 100 * 2 * (longest common subsequence) / (len(s1) + len(s2))
FuzzRatio(s1, s2) == RoundPercent(2 * LcsLength(s1, s2), Len(s1) + Len(s2))

\* a bug: the test for membership never finds the item
InListNever(x, l) == FALSE

\* x in l
InList(x, l) == \E k \in DOMAIN l : l[k] = x

\* a bug: every pair counts as distinct
IsDistinctPairAlways(s1, s2, t) == TRUE

\* fuzz.ratio(...) <= threshold
IsDistinctPair(s1, s2, t) == FuzzRatio(s1, s2) <= t

\* a bug: the item at j is the one looked up and appended
ComparedItemSecond(l, i, j) == l[j + 1]

\* a bug: the last item of the list is appended
ComparedItemLast(l, i, j) == l[Len(l)]

\* string_list[i], the item the body of the inner loop looks up in
\* distinct_list and appends; i and j count from 0
ComparedItem(l, i, j) == l[i + 1]

\* a caller binds the parameters of return_distinct_values_by_threshold
CallReturnDistinct ==
    /\ pc = "idle"
    /\ \E l \in TitleLists, t \in Thresholds :
          /\ string_list' = l
          /\ threshold' = t
    /\ return_to' = "d_returned"
    /\ pc' = "d_enter"
    /\ UNCHANGED <<pub_metrics, distinct_list, idx_i, idx_j, distinct_ret>>
    /\ UNCHANGED <<densify_vars_but_pc, notebook_vars, later_vars,
                   landscape_vars>>

\* distinct_list = []; the outer loop starts with i = 0
ReturnDistinctEnter ==
    /\ pc = "d_enter"
    /\ distinct_list' = <<>>
    /\ idx_i' = 0
    /\ pc' = "d_outer"
    /\ UNCHANGED <<pub_metrics, string_list, threshold, idx_j, distinct_ret,
                   return_to>>
    /\ UNCHANGED <<densify_vars_but_pc, notebook_vars, later_vars,
                   landscape_vars>>

\* for i in range(len(string_list)): the inner loop starts with j = i + 1
ReturnDistinctOuter ==
    /\ pc = "d_outer"
    /\ idx_i < Len(string_list)
    /\ idx_j' = idx_i + 1
    /\ pc' = "d_inner"
    /\ UNCHANGED <<pub_metrics, string_list, threshold, distinct_list, idx_i,
                   distinct_ret, return_to>>
    /\ UNCHANGED <<densify_vars_but_pc, notebook_vars, later_vars,
                   landscape_vars>>

\* for j in range(i + 1, len(string_list)): one comparison, or the end of
\* the inner loop and the next i
ReturnDistinctInner ==
    /\ pc = "d_inner"
    /\ IF idx_j < Len(string_list)
       THEN /\ distinct_list' =
                 IF /\ IsDistinctPair(string_list[idx_i + 1],
                                      string_list[idx_j + 1], threshold)
                    /\ ~InList(ComparedItem(string_list, idx_i, idx_j),
                               distinct_list)
                 THEN Append(distinct_list,
                             ComparedItem(string_list, idx_i, idx_j))
                 ELSE distinct_list
            /\ idx_j' = idx_j + 1
            /\ UNCHANGED <<idx_i, pc>>
       ELSE /\ idx_i' = idx_i + 1
            /\ pc' = "d_outer"
            /\ UNCHANGED <<distinct_list, idx_j>>
    /\ UNCHANGED <<pub_metrics, string_list, threshold, distinct_ret, return_to>>
    /\ UNCHANGED <<densify_vars_but_pc, notebook_vars, later_vars,
                   landscape_vars>>

\* return distinct_list
ReturnDistinctReturn ==
    /\ pc = "d_outer"
    /\ idx_i >= Len(string_list)
    /\ distinct_ret' = distinct_list
    /\ pc' = return_to
    /\ UNCHANGED <<pub_metrics, string_list, threshold, distinct_list, idx_i,
                   idx_j, return_to>>
    /\ UNCHANGED <<densify_vars_but_pc, notebook_vars, later_vars,
                   landscape_vars>>

-----------------------------------------------------------------------------
(* return_distinct_values_by_threshold called on its own: any list of      *)
(* titles, repeats included, and any threshold                             *)

InitDistinct ==
    /\ InitDensify

NextDistinct ==
    \/ CallReturnDistinct
    \/ ReturnDistinctEnter
    \/ ReturnDistinctOuter
    \/ ReturnDistinctInner
    \/ ReturnDistinctReturn

SpecDistinct == InitDistinct /\ [][NextDistinct]_vars

-----------------------------------------------------------------------------
(* The cells of the publication notebook *)

\* pub_metrics = loi_target_project_years.to_dict(orient="records")
PubProjects ==
    <<("Project Name" :> AfterSlash(CytoTableFullName))
      @@ ("Date Created Year" :> FirstYear)>>

\* full texts of bioRxiv papers: one names the project, one does not
MentionText == <<"u", "s", "e", "s", " ",
                 "C", "Y", "T", "O", "T", "A", "B", "L", "E">>
NoMentionText == <<"o", "t", "h", "e", "r">>

\* the results scholarly.search_pubs may yield
ScholarArticles == {[bib |-> [title |-> t]] : t \in {PaperA, PaperADot, PaperB}}

\* the papers bioarxiv_retriever.query may return
BioarxivPapers ==
    {[title |-> PaperA, full_text |-> MentionText],
     [title |-> PaperALowerCased, full_text |-> MentionText],
     [title |-> PaperB, full_text |-> MentionText],
     [title |-> PaperADot, full_text |-> NoMentionText]}

\* sub in text, for strings
Contains(text, sub) ==
    \E k \in 1..(Len(text) - Len(sub) + 1) :
        SubSeq(text, k, k + Len(sub) - 1) = sub

\* {key: val for key, val in paper.items() if key != "full_text"}
WithoutFullText(paper) == [title |-> paper.title]

\* the bioRxiv comprehension: the papers whose full text names the project
BioarxivResults(papers, project) ==
    LET kept == SelectSeq(papers, LAMBDA paper :
                    Contains(Lower(paper.full_text),
                             Lower(project["Project Name"])))
    IN [k \in 1..Len(kept) |-> WithoutFullText(kept[k])]

\* the titles of the Scholar results followed by the titles of the bioRxiv
\* results
PooledTitles(project) ==
    [k \in 1..Len(project["google_scholar_search_results"]) |->
        project["google_scholar_search_results"][k].bib.title]
    \o [k \in 1..Len(project["bioarxiv_search_results"]) |->
        project["bioarxiv_search_results"][k].title]

\* a bug: the pooled list is kept as it is, repeats included
DedupedTitlesKeepsRepeats(project) == {PooledTitles(project)}

\* list(set(pooled titles)): the lists that hold each pooled title once
DedupedTitles(project) == ListsOfSet(SetOfList(PooledTitles(project)))

\* cell "expand the records with Google Scholar results"
GatherScholar ==
    /\ pc = "scholar"
    /\ \E found \in [DOMAIN pub_metrics -> ListsOf(ScholarArticles)] :
          pub_metrics' =
              [p \in DOMAIN pub_metrics |->
                  DictWith(pub_metrics[p],
                      "google_scholar_search_results" :> found[p])]
    /\ pc' = "bioarxiv"
    /\ UNCHANGED <<string_list, threshold, distinct_list, idx_i, idx_j,
                   distinct_ret, return_to>>
    /\ UNCHANGED <<densify_vars_but_pc, notebook_vars, later_vars,
                   landscape_vars>>

\* cell "expand the records with Bioarxiv results"
GatherBioarxiv ==
    /\ pc = "bioarxiv"
    /\ \E papers \in [DOMAIN pub_metrics -> ListsOf(BioarxivPapers)] :
          pub_metrics' =
              [p \in DOMAIN pub_metrics |->
                  DictWith(pub_metrics[p],
                      "bioarxiv_search_results"
                          :> BioarxivResults(papers[p], pub_metrics[p]))]
    /\ pc' = "titles"
    /\ UNCHANGED <<string_list, threshold, distinct_list, idx_i, idx_j,
                   distinct_ret, return_to>>
    /\ UNCHANGED <<densify_vars_but_pc, notebook_vars, later_vars,
                   landscape_vars>>

\* cell "form data for total counts of publications": list(set(...)) holds
\* each title once, in the order in which the set happens to iterate
FormArticleTitles ==
    /\ pc = "titles"
    /\ \E titles \in [DOMAIN pub_metrics ->
                         UNION {DedupedTitles(pub_metrics[p]) :
                                   p \in DOMAIN pub_metrics}] :
          /\ \A p \in DOMAIN pub_metrics :
                titles[p] \in DedupedTitles(pub_metrics[p])
          /\ pub_metrics' =
                [p \in DOMAIN pub_metrics |->
                    DictWith(pub_metrics[p], "all_article_titles" :> titles[p])]
    /\ pc' = "link"
    /\ UNCHANGED <<string_list, threshold, distinct_list, idx_i, idx_j,
                   distinct_ret, return_to>>
    /\ UNCHANGED <<densify_vars_but_pc, notebook_vars, later_vars,
                   landscape_vars>>

\* the record linkage cell calls return_distinct_values_by_threshold for the
\* next project of its comprehension
LinkRecordsCall ==
    /\ pc = "link"
    /\ string_list' = pub_metrics[Current]["all_article_titles"]
    /\ threshold' = LinkThreshold
    /\ return_to' = "linked"
    /\ pc' = "d_enter"
    /\ UNCHANGED <<pub_metrics, distinct_list, idx_i, idx_j, distinct_ret>>
    /\ UNCHANGED <<densify_vars_but_pc, notebook_vars, later_vars,
                   landscape_vars>>

\* the call returned: the record of the project; after the last project the
\* cell binds pub_metrics to the new list
LinkRecordsBind ==
    /\ pc = "linked"
    /\ LET record == DictWith(pub_metrics[Current],
                         "all_article_titles_record_linked_removed"
                             :> distinct_ret)
       IN IF Current = Len(pub_metrics)
          THEN /\ pub_metrics' = Append(comprehension, record)
               /\ comprehension' = <<>>
               /\ pc' = "pub_counts"
          ELSE /\ comprehension' = Append(comprehension, record)
               /\ pc' = "link"
               /\ UNCHANGED pub_metrics
    /\ UNCHANGED <<string_list, threshold, distinct_list, idx_i, idx_j,
                   distinct_ret, return_to>>
    /\ UNCHANGED <<densify_vars_but_pc, tgt_github_metrics, searched,
                   loi_target_projects, later_vars,
                   landscape_vars>>

\* cell "gather counts from the data and export to file"
CountPublications ==
    /\ pc = "pub_counts"
    /\ pub_metrics' =
          [p \in DOMAIN pub_metrics |->
              LET project == pub_metrics[p]
              IN DictWith(project,
                    ("google_scholar_count"
                        :> Len(project["google_scholar_search_results"]))
                    @@ ("bioarxiv_count"
                        :> Len(project["bioarxiv_search_results"]))
                    @@ ("total_pub_count"
                        :> Len(project["all_article_titles"]))
                    @@ ("total_pub_count_non_record_linked"
                        :> Len(project[
                              "all_article_titles_record_linked_removed"])))]
    /\ pc' = "pub_done"
    /\ UNCHANGED <<string_list, threshold, distinct_list, idx_i, idx_j,
                   distinct_ret, return_to>>
    /\ UNCHANGED <<densify_vars_but_pc, notebook_vars, later_vars,
                   landscape_vars>>

InitPublications ==
    /\ heap = <<>>
    /\ months_data = None
    /\ years_data = None
    /\ date_minimum = None
    /\ date_max = None
    /\ start_date = None
    /\ end_date = None
    /\ current_date = None
    /\ current_year = None
    /\ result = None
    /\ ret = None
    /\ prev_ret = None
    /\ calls = 0
    /\ passed = None
    /\ raised = "none"
    /\ pc = "scholar"
    /\ tgt_github_metrics = <<>>
    /\ comprehension = <<>>
    /\ searched = <<>>
    /\ loi_target_projects = <<>>
    /\ pub_metrics = PubProjects
    /\ string_list = <<>>
    /\ threshold = 0
    /\ distinct_list = <<>>
    /\ idx_i = 0
    /\ idx_j = 0
    /\ distinct_ret = <<>>
    /\ return_to = "idle"
    /\ LaterIdle
    /\ LandscapeIdle

NextPublications ==
    \/ GatherScholar
    \/ GatherBioarxiv
    \/ FormArticleTitles
    \/ LinkRecordsCall
    \/ ReturnDistinctEnter
    \/ ReturnDistinctOuter
    \/ ReturnDistinctInner
    \/ ReturnDistinctReturn
    \/ LinkRecordsBind
    \/ CountPublications

SpecPublications == InitPublications /\ [][NextPublications]_vars

-----------------------------------------------------------------------------
(* What the claims about return_distinct_values_by_threshold speak of *)

DistinctReturned == pc = "d_returned"

\* the similarity of the items at the positions a and b (counted from 1) of l
\* is at or below the threshold t
AtOrBelow(l, a, b, t) == FuzzRatio(l[a], l[b]) <= t

\* the positions of l whose item is at or below t with an item further on
PairedWithLater(l, t) ==
    {a \in DOMAIN l : \E b \in DOMAIN l : a < b /\ AtOrBelow(l, a, b, t)}

\* the positions of l whose item is at or below t with an item before it
PairedWithEarlier(l, t) ==
    {b \in DOMAIN l : \E a \in DOMAIN l : a < b /\ AtOrBelow(l, a, b, t)}

\* the items of l at the positions of P
ItemsAt(l, P) == {l[a] : a \in P}

\* the first position of P that holds the title x
FirstAt(l, P, x) ==
    CHOOSE a \in P : l[a] = x /\ \A b \in P : l[b] = x => a <= b

\* no item of l occurs twice
NoRepeats(l) == \A a, b \in DOMAIN l : l[a] = l[b] => a = b

\* the positions whose comparisons as the first item are over: those before
\* the running i, and the running i when one of the j compared so far is
\* at or below the threshold
PairedSoFar ==
    {a \in 1..idx_i : a \in PairedWithLater(string_list, threshold)}
    \cup (IF pc = "d_inner" /\ \E b \in (idx_i + 2)..idx_j :
                 AtOrBelow(string_list, idx_i + 1, b, threshold)
          THEN {idx_i + 1} ELSE {})

\* C11 as stated: of a pair at or below the threshold the second item (index j)
\* is appended, so the returned list holds exactly the titles that are at or
\* below the threshold with some title of a smaller index.
C11_SecondItemAppended ==
    DistinctReturned =>
        SetOfList(distinct_ret)
            = ItemsAt(string_list, PairedWithEarlier(string_list, threshold))

\* C11 amended: the pairs (i, j) are visited with i ascending and j > i
\* ascending, and of a pair at or below the threshold the FIRST item (index i)
\* is appended unless it is in the list already: at every step the list holds
\* the titles paired so far, and the returned list holds exactly the titles
\* that are at or below the threshold with some title of a LARGER index, each
\* once, in the order of the first position at which that is the case.
C11_FirstItemAppended ==
    /\ pc = "d_inner" => idx_i < idx_j /\ idx_j <= Len(string_list)
    /\ pc \in {"d_outer", "d_inner"} =>
          /\ idx_i <= Len(string_list)
          /\ SetOfList(distinct_list) = ItemsAt(string_list, PairedSoFar)
    /\ DistinctReturned =>
          LET P == PairedWithLater(string_list, threshold)
          IN /\ SetOfList(distinct_ret) = ItemsAt(string_list, P)
             /\ NoRepeats(distinct_ret)
             /\ \A a, b \in DOMAIN distinct_ret :
                   a < b => FirstAt(string_list, P, distinct_ret[a])
                               < FirstAt(string_list, P, distinct_ret[b])

\* a call returned a list that leaves out a title of the argument and holds a
\* title that occurs twice in the argument
C11_Witness ==
    /\ DistinctReturned
    /\ Len(string_list) = MaxTitles
    /\ ~NoRepeats(string_list)
    /\ distinct_ret # <<>>
    /\ SetOfList(distinct_ret) # SetOfList(string_list)
    /\ string_list[1] = string_list[2]

\* C13: a title is in the list, while it is built and when it is returned,
\* only if a comparison it takes part in is at or below the threshold; a
\* list of no or one title has no comparison and yields the empty list.
C13_OnlyComparedTitles ==
    /\ \A k \in DOMAIN distinct_list :
          \E a, b \in DOMAIN string_list :
             /\ a < b
             /\ distinct_list[k] \in {string_list[a], string_list[b]}
             /\ AtOrBelow(string_list, a, b, threshold)
    /\ DistinctReturned =>
          /\ distinct_ret = distinct_list
          /\ Len(string_list) <= 1 => distinct_ret = <<>>

\* a call with two different titles that are above the threshold with each
\* other returned the empty list
C13_Witness ==
    /\ DistinctReturned
    /\ Len(string_list) = 2
    /\ string_list[1] # string_list[2]
    /\ ~AtOrBelow(string_list, 1, 2, threshold)
    /\ distinct_ret = <<>>

-----------------------------------------------------------------------------
(* What the claims about the publication counts speak of *)

PublicationsCounted == pc = "pub_done"

\* the elements of a list
Range(l) == {l[k] : k \in DOMAIN l}

\* the different title strings of the Scholar results and the bioRxiv results
\* of a record
RawTitlesOf(project) ==
    {article.bib.title : article \in Range(project["google_scholar_search_results"])}
    \cup {article.title : article \in Range(project["bioarxiv_search_results"])}

\* the titles the near-duplicate step returns for the list l
LinkedTitles(l) == ItemsAt(l, PairedWithLater(l, LinkThreshold))

\* C12 as stated: whatever the order of the exact-deduplicated titles, the
\* near-duplicate step yields the titles it yielded in this run, and as many:
\* every order of all_article_titles gives the set of titles and the
\* total_pub_count_non_record_linked of the record.
C12_OrderIndependent ==
    PublicationsCounted =>
        \A p \in DOMAIN pub_metrics :
            \A l \in ListsOfSet(Range(pub_metrics[p]["all_article_titles"])) :
                /\ LinkedTitles(l)
                      = Range(pub_metrics[p][
                                  "all_article_titles_record_linked_removed"])
                /\ Cardinality(LinkedTitles(l))
                      = pub_metrics[p]["total_pub_count_non_record_linked"]

\* C14: total_pub_count is the number of different raw title strings among
\* the Scholar titles and the bioRxiv titles, letter case told apart, and
\* total_pub_count_non_record_linked is the length of what
\* return_distinct_values_by_threshold returned for the deduplicated list
\* and the threshold 90.
C14_PublicationCounts ==
    PublicationsCounted =>
        \A p \in DOMAIN pub_metrics :
            LET project == pub_metrics[p]
                titles == project["all_article_titles"]
                linked == project["all_article_titles_record_linked_removed"]
            IN /\ project["total_pub_count"]
                     = Cardinality(RawTitlesOf(project))
               /\ Range(titles) = RawTitlesOf(project)
               /\ NoRepeats(titles)
               /\ threshold = 90
               /\ string_list = titles
               /\ linked = distinct_ret
               /\ Range(linked) = LinkedTitles(titles)
               /\ NoRepeats(linked)
               /\ project["total_pub_count_non_record_linked"] = Len(linked)

\* the pooled list was 'Paper A', 'Paper A', 'Paper B' and the count is 2
C14_Witness ==
    /\ PublicationsCounted
    /\ PooledTitles(pub_metrics[1]) = <<PaperA, PaperA, PaperB>>
    /\ pub_metrics[1]["total_pub_count"] = 2

-----------------------------------------------------------------------------
(***************************************************************************)
(* notebooks/cytomining-ecosystem/gather-targeted-package-metrics.py       *)
(***************************************************************************)

PycytominerName == <<"p", "y", "c", "y", "t", "o", "m", "i", "n", "e", "r">>
CytoSnakeName == <<"C", "y", "t", "o", "S", "n", "a", "k", "e">>

\* pkg_metrics = loi_target_project_years[[...]].to_dict(orient="records")
PkgProjects ==
    LET created == StrftimeYM(DateTime(FirstYear, 2, 1))
    IN <<("Project Name" :> PycytominerName)
            @@ ("Date Created YYYY-MM" :> created),
         ("Project Name" :> AfterSlash(CytoTableFullName))
            @@ ("Date Created YYYY-MM" :> created),
         ("Project Name" :> CytoSnakeName)
            @@ ("Date Created YYYY-MM" :> created)>>

\* the keys the pypinfo cell adds, in the order in which it runs pypinfo
PypiFields ==
    <<"pypi_downloads_total", "pypi_downloads_by_month",
      "pypi_downloads_by_pyversion", "pypi_downloads_by_country",
      "pypi_downloads_by_system_and_distro">>

\* a finished pypinfo process: its return code and the JSON it printed
Completed(code, rows) == [returncode |-> code, stdout |-> [rows |-> rows]]

\* what the runs of pypinfo for one project may end with, per key
PypinfoRuns ==
    {run \in [DOMAIN PypiFields ->
                 {Completed(0, <<>>),
                  Completed(0, <<[download_count |-> 5]>>),
                  Completed(1, <<>>)}] :
        \A k \in DOMAIN run : k > 1 => run[k].stdout.rows = <<>>}

\* subprocess.run(..., check=True) raises CalledProcessError for a return
\* code other than 0
CheckFails(completed) == completed.returncode # 0

\* json.loads(completed.stdout)["rows"]
RowsOf(completed) == completed.stdout.rows

\* the record the running comprehension of the package notebook has
\* finished; after the last project the cell binds pkg_metrics to the new list
FinishPkgRecord(record, thisCell, nextCell) ==
    IF Current = Len(pkg_metrics)
    THEN /\ pkg_metrics' = Append(comprehension, record)
         /\ comprehension' = <<>>
         /\ pc' = nextCell
    ELSE /\ comprehension' = Append(comprehension, record)
         /\ pc' = thisCell
         /\ UNCHANGED pkg_metrics

\* an exception leaves the cell: the comprehension and its list are given
\* up and pkg_metrics is not bound again
PkgCellRaises(exception) ==
    /\ raised' = exception
    /\ pc' = "raised"
    /\ comprehension' = <<>>
    /\ UNCHANGED pkg_metrics

\* cell "gather various PyPI metrics through pypinfo", one project
GatherPypi ==
    /\ pc = "pypi"
    /\ \E run \in PypinfoRuns :
          IF \E k \in DOMAIN run : CheckFails(run[k])
          THEN PkgCellRaises("CalledProcessError")
          ELSE /\ FinishPkgRecord(
                     DictWith(pkg_metrics[Current],
                         [f \in Range(PypiFields) |->
                             RowsOf(run[CHOOSE k \in DOMAIN PypiFields :
                                           PypiFields[k] = f])]),
                     "pypi", "conda")
               /\ UNCHANGED raised
    /\ UNCHANGED <<densify_locals, tgt_github_metrics, searched,
                   loi_target_projects, pub_vars, landscape_vars,
                   call_args, call_ret,
                   github_client>>

\* the keys the conda cell adds, in the order in which it calls condastats
CondaFields ==
    <<"conda_downloads_total", "conda_downloads_by_month",
      "conda_downloads_by_pyversion", "conda_downloads_by_version",
      "conda_downloads_by_platform">>

\* a pandas Series: its index is a tuple per row
Series(rows) == [kind |-> "Series", rows |-> rows]

\* a value of a Series
Scalar(n) == [kind |-> "scalar", value |-> n]

\* what the calls of condastats for the package called name may return, per
\* key: no row, or rows of that package
CondaResults(name) ==
    LET month == StrftimeYM(DateTime(FirstYear, 2, 1))
    IN {res \in [DOMAIN CondaFields ->
                    {Series(EmptyDict),
                     Series(<<name>> :> 5),
                     Series(<<name, month>> :> 5)}] :
          /\ res[1] \in {Series(EmptyDict), Series(<<name>> :> 5)}
          /\ res[2] \in {Series(EmptyDict), Series(<<name, month>> :> 5)}
          /\ \A k \in DOMAIN res : k > 2 => res[k] = Series(EmptyDict)}

\* condastats_result.xs(package_name): the value of the row of that package
\* when the index has one level, else the Series of its rows without that level
Xs(condastats_result, package_name) ==
    LET rows == condastats_result.rows
        mine == {k \in DOMAIN rows : k[1] = package_name}
    IN IF \A k \in mine : Len(k) = 1
       THEN Scalar(rows[<<package_name>>])
       ELSE Series([k \in {Tail(key) : key \in mine} |->
                       rows[<<package_name>> \o k]])

\* single_dim_result.to_dict(): the index values of the one level left are
\* the keys
ToDict(series) ==
    [key \in {k[1] : k \in DOMAIN series.rows} |-> series.rows[<<key>>]]

\* condastats_handler
CondastatsHandler(condastats_result, package_name) ==
    IF Cardinality(DOMAIN condastats_result.rows) > 0
    THEN LET single_dim_result == Xs(condastats_result, package_name)
         IN IF single_dim_result.kind = "Series"
            THEN ToDict(single_dim_result)
            ELSE single_dim_result.value
    ELSE None

\* the second cell "gather various conda metrics", one project: every call
\* of condastats returns, or one of them raises
GatherConda ==
    /\ pc = "conda"
    /\ LET project == pkg_metrics[Current]
           name == Lower(project["Project Name"])
       IN \/ \E res \in CondaResults(name) :
                /\ FinishPkgRecord(
                      DictWith(project,
                          [f \in Range(CondaFields) |->
                              CondastatsHandler(
                                  res[CHOOSE k \in DOMAIN CondaFields :
                                         CondaFields[k] = f],
                                  name)]),
                      "conda", "pkg_done")
                /\ UNCHANGED raised
          \/ PkgCellRaises("Exception")
    /\ UNCHANGED <<densify_locals, tgt_github_metrics, searched,
                   loi_target_projects, pub_vars, landscape_vars,
                   call_args, call_ret,
                   github_client>>

InitPackages ==
    /\ heap = <<>>
    /\ months_data = None
    /\ years_data = None
    /\ date_minimum = None
    /\ date_max = None
    /\ start_date = None
    /\ end_date = None
    /\ current_date = None
    /\ current_year = None
    /\ result = None
    /\ ret = None
    /\ prev_ret = None
    /\ calls = 0
    /\ passed = None
    /\ raised = "none"
    /\ pc = "pypi"
    /\ tgt_github_metrics = <<>>
    /\ comprehension = <<>>
    /\ searched = <<>>
    /\ loi_target_projects = <<>>
    /\ PubIdle
    /\ LandscapeIdle
    /\ pkg_metrics = PkgProjects
    /\ call_args = <<>>
    /\ call_ret = PyNone
    /\ github_client = <<>>

NextPackages ==
    \/ GatherPypi
    \/ GatherConda

SpecPackages == InitPackages /\ [][NextPackages]_vars

-----------------------------------------------------------------------------
(* What the claim about the package notebook speaks of *)

\* the record has every key of the two cells
PkgRecordComplete(project) ==
    Range(PypiFields) \cup Range(CondaFields) \subseteq DOMAIN project

\* C15: when the package source fails for one project of the batch no
\* exception leaves the batch: no cell ends with an exception, and when the
\* notebook is through every project has its record with every
\* package-download key, None where the source gave nothing.
C15_OneFailureTolerated ==
    /\ raised = "none"
    /\ pc # "raised"
    /\ pc = "pkg_done" =>
          /\ Len(pkg_metrics) = Len(PkgProjects)
          /\ \A p \in DOMAIN pkg_metrics : PkgRecordComplete(pkg_metrics[p])

-----------------------------------------------------------------------------
(***************************************************************************)
(* The functions that guard one query of GitHub:                           *)
(* notebooks/cytomining-ecosystem/project-git-metrics.py and               *)
(* safely_query_github_repo_from_archive_data of the GitHub notebook       *)
(***************************************************************************)

\* a step of a lookup raises, or gives a value
Raises == [raises |-> TRUE]
Gives(v) == [raises |-> FALSE, value |-> v]

\* a datetime with its tzinfo, "naive" when it has none
PyDatetime(d, tz) == [type |-> "datetime", value |-> d, tzinfo |-> tz]

\* license identifiers
MIT == <<"M", "I", "T">>

\* a License object of the API
License(spdx) == [type |-> "License", spdx_id |-> spdx]

\* what repo.get_license() may do: raise, or give a file whose license is
\* None or a License with or without an identifier
LicenseLookups ==
    {Raises,
     Gives([type |-> "ContentFile", license |-> PyNone]),
     Gives([type |-> "ContentFile", license |-> License(PyNone)]),
     Gives([type |-> "ContentFile", license |-> License(PyStr(MIT))])}

\* what iterating repo.get_commits() may do: raise, or give the commits
CommitLookups ==
    {Raises, Gives(<<>>), Gives(<<"c1">>), Gives(<<"c1", "c2">>)}

\* what repo.pushed_at may do: raise, or give None or a datetime, with or
\* without a time zone
PushedAtLookups ==
    {Raises,
     Gives(PyNone),
     Gives(PyDatetime(DateTime(FirstYear, 2, 28), "naive")),
     Gives(PyDatetime(DateTime(FirstYear, 12, 31), "UTC"))}

\* the repository objects the functions are called with
Repos ==
    [type : {"Repository"},
     get_license : LicenseLookups,
     get_commits : CommitLookups,
     pushed_at : PushedAtLookups]

\* obj.attribute raises AttributeError when obj is None
IsNone(v) == v.type = "NoneType"

\* try_to_detect_license
TryToDetectLicense(repo) ==
    IF repo.get_license.raises THEN PyNone
    ELSE IF IsNone(repo.get_license.value.license) THEN PyNone
    ELSE repo.get_license.value.license.spdx_id

\* a bug: a failure yields None instead of 0
TryToGatherCommitCountNone(repo) ==
    IF repo.get_commits.raises THEN PyNone
    ELSE PyInt(Len(repo.get_commits.value))

\* try_to_gather_commit_count
TryToGatherCommitCount(repo) ==
    IF repo.get_commits.raises THEN PyInt(0)
    ELSE PyInt(Len(repo.get_commits.value))

\* dt.replace(tzinfo=pytz.UTC)
ReplaceTzinfoUTC(dt) == [dt EXCEPT !.tzinfo = "UTC"]

\* try_to_gather_most_recent_commit_date
TryToGatherMostRecentCommitDate(repo) ==
    IF repo.pushed_at.raises THEN PyNone
    ELSE IF IsNone(repo.pushed_at.value) THEN PyNone
    ELSE ReplaceTzinfoUTC(repo.pushed_at.value)

\* the repositories GitHub may know under a name
KnownRepos ==
    {repo \in Repos : /\ repo.get_license = Raises
                      /\ repo.get_commits \in {Raises, Gives(<<"c1">>)}
                      /\ repo.pushed_at \in {Raises, Gives(PyNone)}}

\* what github_client.get_repo may do for each full name
GitHubAnswers == [{ToolX, ToolY} -> {Raises} \cup {Gives(repo) : repo \in KnownRepos}]

\* safely_query_github_repo_from_archive_data
SafelyQueryGithubRepoFromArchiveData(repo_full_name) ==
    IF github_client[repo_full_name].raises THEN PyNone
    ELSE github_client[repo_full_name].value

\* a caller binds the parameter of one of the functions of
\* project-git-metrics.py
CallTryTo ==
    /\ pc = "idle"
    /\ \E repo \in Repos : call_args' = <<repo>>
    /\ \E f \in {"try_to_detect_license", "try_to_gather_commit_count",
                 "try_to_gather_most_recent_commit_date"} : pc' = f
    /\ UNCHANGED <<densify_vars_but_pc, notebook_vars, pub_vars,
                   landscape_vars, pkg_metrics,
                   call_ret, github_client>>

\* the body of try_to_detect_license
ReturnLicense ==
    /\ pc = "try_to_detect_license"
    /\ call_ret' = TryToDetectLicense(call_args[1])
    /\ pc' = "license_returned"
    /\ UNCHANGED <<densify_vars_but_pc, notebook_vars, pub_vars,
                   landscape_vars, pkg_metrics,
                   call_args, github_client>>

\* the body of try_to_gather_commit_count
ReturnCommitCount ==
    /\ pc = "try_to_gather_commit_count"
    /\ call_ret' = TryToGatherCommitCount(call_args[1])
    /\ pc' = "count_returned"
    /\ UNCHANGED <<densify_vars_but_pc, notebook_vars, pub_vars,
                   landscape_vars, pkg_metrics,
                   call_args, github_client>>

\* the body of try_to_gather_most_recent_commit_date
ReturnMostRecentCommitDate ==
    /\ pc = "try_to_gather_most_recent_commit_date"
    /\ call_ret' = TryToGatherMostRecentCommitDate(call_args[1])
    /\ pc' = "date_returned"
    /\ UNCHANGED <<densify_vars_but_pc, notebook_vars, pub_vars,
                   landscape_vars, pkg_metrics,
                   call_args, github_client>>

\* a caller binds the parameter of
\* safely_query_github_repo_from_archive_data; GitHub is in some state
CallSafelyQuery ==
    /\ pc = "idle"
    /\ \E answers \in GitHubAnswers : github_client' = answers
    /\ \E repo_full_name \in {ToolX, ToolY} : call_args' = <<repo_full_name>>
    /\ pc' = "safely_query"
    /\ UNCHANGED <<densify_vars_but_pc, notebook_vars, pub_vars,
                   landscape_vars, pkg_metrics,
                   call_ret>>

\* the body of safely_query_github_repo_from_archive_data
ReturnSafelyQuery ==
    /\ pc = "safely_query"
    /\ call_ret' = SafelyQueryGithubRepoFromArchiveData(call_args[1])
    /\ pc' = "query_returned"
    /\ UNCHANGED <<densify_vars_but_pc, notebook_vars, pub_vars,
                   landscape_vars, pkg_metrics,
                   call_args, github_client>>

InitTryTo ==
    /\ InitDensify

NextTryTo ==
    \/ CallTryTo
    \/ ReturnLicense
    \/ ReturnCommitCount
    \/ ReturnMostRecentCommitDate
    \/ CallSafelyQuery
    \/ ReturnSafelyQuery

SpecTryTo == InitTryTo /\ [][NextTryTo]_vars

-----------------------------------------------------------------------------
(* find_average and find_median of the GitHub notebook *)

\* the longest list find_average and find_median are called with
MaxNums == 4

\* the numbers of the lists
StatValues == {1, 2, 3, 4, 6}

\* the nums arguments
NumLists == UNION {[1..n -> StatValues] : n \in 0..MaxNums}

\* a caller binds nums
CallFindAverage ==
    /\ pc = "idle"
    /\ \E nums \in NumLists : call_args' = <<nums>>
    /\ pc' = "find_average"
    /\ UNCHANGED <<densify_vars_but_pc, notebook_vars, pub_vars,
                   landscape_vars, pkg_metrics,
                   call_ret, github_client>>

ReturnFindAverage ==
    /\ pc = "find_average"
    /\ call_ret' = FindAverage(call_args[1])
    /\ pc' = "average_returned"
    /\ UNCHANGED <<densify_vars_but_pc, notebook_vars, pub_vars,
                   landscape_vars, pkg_metrics,
                   call_args, github_client>>

\* a caller binds nums
CallFindMedian ==
    /\ pc = "idle"
    /\ \E nums \in NumLists : call_args' = <<nums>>
    /\ pc' = "find_median"
    /\ UNCHANGED <<densify_vars_but_pc, notebook_vars, pub_vars,
                   landscape_vars, pkg_metrics,
                   call_ret, github_client>>

ReturnFindMedian ==
    /\ pc = "find_median"
    /\ call_ret' = FindMedian(call_args[1])
    /\ pc' = "median_returned"
    /\ UNCHANGED <<densify_vars_but_pc, notebook_vars, pub_vars,
                   landscape_vars, pkg_metrics,
                   call_args, github_client>>

InitStatistics ==
    /\ InitDensify

NextStatistics ==
    \/ CallFindAverage
    \/ ReturnFindAverage
    \/ CallFindMedian
    \/ ReturnFindMedian

SpecStatistics == InitStatistics /\ [][NextStatistics]_vars

-----------------------------------------------------------------------------
(* What the claim about the guarded queries speaks of *)

\* the repository a function of project-git-metrics.py was called with
RepoArgument == call_args[1]

\* a step of the license lookup raised: the query, or reading spdx_id of a
\* license that is None
LicenseLookupRaised ==
    \/ RepoArgument.get_license.raises
    \/ RepoArgument.get_license.value.license = PyNone

\* a step of the date lookup raised: the attribute, or replace() of None
DateLookupRaised ==
    \/ RepoArgument.pushed_at.raises
    \/ RepoArgument.pushed_at.value = PyNone

\* what the claim says of try_to_detect_license, try_to_gather_commit_count
\* and safely_query_github_repo_from_archive_data
FailureSubstituted ==
    /\ pc = "license_returned" =>
          IF LicenseLookupRaised THEN call_ret = PyNone
          ELSE call_ret = RepoArgument.get_license.value.license.spdx_id
    /\ pc = "count_returned" =>
          IF RepoArgument.get_commits.raises THEN call_ret = PyInt(0)
          ELSE call_ret = PyInt(Len(RepoArgument.get_commits.value))
    /\ pc = "query_returned" =>
          IF github_client[call_args[1]].raises THEN call_ret = PyNone
          ELSE call_ret = github_client[call_args[1]].value
    /\ pc = "date_returned" /\ DateLookupRaised => call_ret = PyNone

\* C17 as stated: no failure of a lookup escapes, None (0 for the commit
\* count) is returned in its place, and a lookup that succeeds is returned
\* unchanged by each of the four functions.
C17_ValueUnchanged ==
    /\ raised = "none"
    /\ FailureSubstituted
    /\ pc = "date_returned" /\ ~DateLookupRaised =>
          call_ret = RepoArgument.pushed_at.value

\* C17 amended: as stated, but try_to_gather_most_recent_commit_date returns
\* repo.pushed_at with its tzinfo set to UTC: the date is unchanged, the time
\* zone is UTC whether or not pushed_at had one.
C17_FailureNeverEscapes ==
    /\ raised = "none"
    /\ FailureSubstituted
    /\ pc = "date_returned" /\ ~DateLookupRaised =>
          /\ call_ret.type = "datetime"
          /\ call_ret.value = RepoArgument.pushed_at.value.value
          /\ call_ret.tzinfo = "UTC"

\* the date of a repository whose pushed_at has no time zone was returned
C17_Witness ==
    /\ pc = "date_returned"
    /\ ~DateLookupRaised
    /\ RepoArgument.pushed_at.value.tzinfo = "naive"
    /\ call_ret # PyNone

-----------------------------------------------------------------------------
(* What the claims about find_average and find_median speak of *)

\* the list a function was called with
NumsArgument == call_args[1]

\* the returned value is the number n / d
ReturnedNumber(n, d) ==
    \/ call_ret.type = "int" /\ call_ret.value * d = n
    \/ call_ret.type = "float" /\ call_ret.den > 0
                               /\ call_ret.num * d = n * call_ret.den

\* the total of the numbers of l, added up from the last one
RECURSIVE TotalOf(_)
TotalOf(l) ==
    IF Len(l) = 0 THEN 0 ELSE TotalOf(SubSeq(l, 1, Len(l) - 1)) + l[Len(l)]

\* how many positions of l hold a number below, or above, m
Below(l, m) == Cardinality({k \in DOMAIN l : l[k] < m})
Above(l, m) == Cardinality({k \in DOMAIN l : l[k] > m})

\* the number of l that has at most b numbers below it and at most a above
Ranked(l, b, a) ==
    CHOOSE m \in Range(l) : Below(l, m) <= b /\ Above(l, m) <= a

\* C18: find_average returns None for the empty list and the sum divided by
\* the length for any other list; find_average([4, 6]) is 5.
C18_AverageOrNone ==
    pc = "average_returned" =>
        /\ NumsArgument = <<>> => call_ret = PyNone
        /\ NumsArgument # <<>> =>
              ReturnedNumber(TotalOf(NumsArgument), Len(NumsArgument))
        /\ NumsArgument = <<4, 6>> => ReturnedNumber(5, 1)

\* find_average([4, 6]) returned
C18_Witness ==
    /\ pc = "average_returned"
    /\ NumsArgument = <<4, 6>>
    /\ call_ret # PyNone

\* C19: find_median returns None for the empty list and the median of any
\* other list: the number in the middle by rank for an odd length, half the
\* sum of the two numbers in the middle by rank for an even length. The
\* ranks depend on how many numbers are below and above, not on the order of
\* the list. find_median([1, 2, 3, 4]) is 2.5.
C19_MedianOrNone ==
    pc = "median_returned" =>
        LET n == Len(NumsArgument)
            half == n \div 2
        IN /\ n = 0 => call_ret = PyNone
           /\ n % 2 = 1 =>
                 ReturnedNumber(Ranked(NumsArgument, half, half), 1)
           /\ n > 0 /\ n % 2 = 0 =>
                 ReturnedNumber(Ranked(NumsArgument, half - 1, half)
                                + Ranked(NumsArgument, half, half - 1), 2)
           /\ Range(NumsArgument) = {1, 2, 3, 4} /\ n = 4 => ReturnedNumber(5, 2)

\* find_median returned for 1, 2, 3, 4 given in another order
C19_Witness ==
    /\ pc = "median_returned"
    /\ NumsArgument = <<4, 1, 3, 2>>
    /\ ReturnedNumber(5, 2)


-----------------------------------------------------------------------------
(* What the claim about a malformed dependents result speaks of *)

\* the cells before "add calculations for ease of analysis" have run
DependentsGathered == pc \in {"counts", "done", "raised"}

\* the dependents result of project i lacks a key the counts are read from
LacksSubstructure(i) ==
    LET dependents == tgt_github_metrics[i]["GitHub Dependents"]
    IN \/ "all_public_dependent_repos" \notin DOMAIN dependents
       \/ "total_dependents_number" \notin DOMAIN dependents

\* C16: when the dependency-graph result of a project has no
\* 'all_public_dependent_repos' or no 'total_dependents_number' key, computing
\* the dependent counts does not raise, and once the counts are there the
\* total is the number of distinct identifiers of the code-search list alone.
C16_MalformedIsNoData ==
    DependentsGathered =>
        \A i \in Projects :
            LacksSubstructure(i) =>
                /\ raised # "KeyError"
                /\ pc # "raised"
                /\ Counted =>
                      TotalCountOf(i) = Cardinality(ListedBySearch(i))


-----------------------------------------------------------------------------
(* What the claim about the order of processing speaks of *)

\* the positions of the projects in the batch
Batch == 1..Len(loi_target_projects)

\* the newest record of project i: the one the running comprehension has
\* built, or else the one in tgt_github_metrics
RecordOf(i) ==
    IF i <= Len(comprehension) THEN comprehension[i]
    ELSE IF i <= Len(tgt_github_metrics) THEN tgt_github_metrics[i]
    ELSE EmptyDict

\* a key that each cell adds to the record of a project, cell by cell:
\* the two collection cells, the densification, the aggregation
CellKeys ==
    <<"GitHub Code Search Used By",
      "GitHub Dependents",
      "GitHub Stargazers Count by Month",
      "GitHub Total Dependents Count">>

Cells == DOMAIN CellKeys

\* cell c has run for project i
RanFor(c, i) == CellKeys[c] \in DOMAIN RecordOf(i)

\* within a project the cells run in their order
InOrderWithinProject ==
    \A i \in Batch : \A c \in Cells, d \in Cells :
        c < d /\ RanFor(d, i) => RanFor(c, i)

\* C20 as stated: for projects P before Q of the batch, every stage has run
\* for P before any stage runs for Q, and within a project the stages run
\* in their order.
C20_OneProjectAtATime ==
    /\ \A p \in Batch, q \in Batch :
          p < q /\ (\E c \in Cells : RanFor(c, q)) =>
              \A c \in Cells : RanFor(c, p)
    /\ InOrderWithinProject

\* C20, amended: processing is one cell at a time. A cell runs for the
\* projects in the order of the batch, a cell has run for every project of
\* the batch before the next cell runs for any project, and within a project
\* the cells run in their order.
C20_OneCellAtATime ==
    /\ \A p \in Batch, q \in Batch : \A c \in Cells :
          p < q /\ RanFor(c, q) => RanFor(c, p)
    /\ \A p \in Batch, q \in Batch : \A c \in Cells, d \in Cells :
          c < d /\ RanFor(d, p) => RanFor(c, q)
    /\ InOrderWithinProject

\* the second project is collected and the first one densified while no
\* project is aggregated
C20_Witness ==
    /\ Len(loi_target_projects) = 2
    /\ RanFor(2, 2)
    /\ RanFor(3, 1)
    /\ ~RanFor(3, 2)
    /\ ~RanFor(4, 1)

-----------------------------------------------------------------------------
(* add_missing_months called for ranges of every month length, the change   *)
(* of year and the last months datetime can hold                             *)

\* the months the two period arguments are drawn from
LoopMonths ==
    {DateTime(2023, m, 1) : m \in {1, 2, 3, 4, 11, 12}}
    \cup {DateTime(2024, m, 1) : m \in {1, 2, 3}}
    \cup {DateTime(9999, m, 1) : m \in {10, 11, 12}}

\* a caller binds the parameters: an empty mapping and two months that are
\* at most a year apart
CallAddMissingMonthsNear ==
    /\ pc = "idle"
    /\ \E dmin \in LoopMonths, dmax \in LoopMonths :
          /\ dmax.year - dmin.year \in {-1, 0, 1}
          /\ date_minimum' = StrftimeYM(dmin)
          /\ date_max' = StrftimeYM(dmax)
    /\ heap' = <<EmptyDict>>
    /\ passed' = EmptyDict
    /\ months_data' = 1
    /\ calls' = 1
    /\ pc' = "m_enter"
    /\ UNCHANGED <<years_data, start_date, end_date, current_date,
                   current_year, result, ret, prev_ret, raised>>
    /\ UNCHANGED <<notebook_vars, other_vars>>

NextMonthLoop ==
    \/ CallAddMissingMonthsNear
    \/ AddMissingMonthsEnter
    \/ AddMissingMonthsLoop
    \/ AddMissingMonthsReturn

SpecMonthLoop == InitDensify /\ [][NextMonthLoop]_vars

-----------------------------------------------------------------------------
(* What the claim about the month loop speaks of *)

\* the loop of add_missing_months has been entered
InMonthLoop == pc \in {"m_while", "m_returned"} \/ raised = "OverflowError"

\* the months the passes of the loop have set so far: one key per pass, as
\* the mapping passed is empty
MonthsSet == DOMAIN heap[result]

\* the number of months of the closed range [start_date, end_date]
MonthsInRange ==
    IF MonthOrd(start_date) > MonthOrd(end_date) THEN 0
    ELSE MonthOrd(end_date) - MonthOrd(start_date) + 1

\* the last month a datetime can hold
LastMonth == DateTime(9999, 12, 1)

\* the passes so far have set the months from start_date on, each once and
\* none left out, and current_date is the first day of the month after them
OneMonthPerPass ==
    /\ current_date.day = 1
    /\ MonthsSet =
          {MonthName(i) : i \in MonthOrd(start_date) .. MonthOrd(current_date) - 1}
    /\ Cardinality(MonthsSet) = MonthOrd(current_date) - MonthOrd(start_date)

\* C22 as stated: every pass of the month loop advances current_date by
\* exactly one calendar month, no month is skipped or repeated, and for
\* every valid pair of arguments the loop ends, without an exception, after
\* as many passes as the range has months.
C22_OneMonthPerPassAlways ==
    /\ raised # "OverflowError"
    /\ InMonthLoop =>
          /\ OneMonthPerPass
          /\ Cardinality(MonthsSet) <= MonthsInRange
          /\ pc = "m_returned" => Cardinality(MonthsSet) = MonthsInRange

\* what the code does: the same while the range does not hold December 9999;
\* in the pass for December 9999 the key is set and adding 32 days raises
\* OverflowError, after as many passes as the range has months.
C22_OneMonthPerPassBeforeLastMonth ==
    InMonthLoop =>
        /\ Cardinality(MonthsSet) <= MonthsInRange
        /\ IF raised = "OverflowError"
           THEN /\ current_date = LastMonth
                /\ end_date = LastMonth
                /\ MonthsSet =
                      {MonthName(i) :
                          i \in MonthOrd(start_date) .. MonthOrd(LastMonth)}
                /\ Cardinality(MonthsSet) = MonthsInRange
           ELSE /\ OneMonthPerPass
                /\ pc = "m_returned" =>
                      /\ Cardinality(MonthsSet) = MonthsInRange
                      /\ end_date # LastMonth \/ MonthsInRange = 0

\* the range November 2023 to March 2024: months of 30, 31, 31, 29 and 31
\* days and the change of year, five passes
C22_Witness ==
    /\ pc = "m_returned"
    /\ start_date = DateTime(2023, 11, 1)
    /\ end_date = DateTime(2024, 3, 1)
    /\ current_date = DateTime(2024, 4, 1)
    /\ Cardinality(MonthsSet) = 5

-----------------------------------------------------------------------------
(* What the claim about the conservation of star counts speaks of *)

\* the cell that densifies the stargazers has run for the batch
Densified == pc \in {"counts", "done"}

StarsByDateOf(i) == tgt_github_metrics[i]["GitHub Stars by Date"]
ByMonthOf(i) == tgt_github_metrics[i]["GitHub Stargazers Count by Month"]
ByYearOf(i) == tgt_github_metrics[i]["GitHub Stargazers Count by Year"]

\* the sum of the values of a dict
SumOfValues(d) == Sum(DictValues(d))

\* the months from the creation of project i to the current month
MonthsTracked(i) ==
    LET created == StrptimeYM(tgt_github_metrics[i]["GitHub Repo Created Month"])
        current == StrptimeYM(CurrentYearMonth)
    IN {MonthName(m) : m \in MonthOrd(created.value) .. MonthOrd(current.value)}

\* C27: once the stargazers are densified, for every project the values of
\* 'GitHub Stargazers Count by Month' sum to the number of timestamps of
\* 'GitHub Stars by Date', and so do the values of 'GitHub Stargazers Count
\* by Year', also when timestamps lie outside the months from the creation
\* to the current month.
C27_StarsConserved ==
    Densified =>
        \A i \in Projects :
            /\ SumOfValues(ByMonthOf(i)) = Len(StarsByDateOf(i))
            /\ SumOfValues(ByYearOf(i)) = Len(StarsByDateOf(i))

\* a project with two stars, one of them in a month before its creation,
\* and another with two stars in one month
C27_Witness ==
    /\ Densified
    /\ \E i \in Projects :
          /\ Len(StarsByDateOf(i)) = 2
          /\ DOMAIN ByMonthOf(i) \ MonthsTracked(i) # {}
          /\ SumOfValues(ByMonthOf(i)) = 2
    /\ \E i \in Projects :
          /\ Len(StarsByDateOf(i)) = 2
          /\ \E k \in DOMAIN ByMonthOf(i) : ByMonthOf(i)[k] = 2

-----------------------------------------------------------------------------
(* cell "gather key personnel contribution data from GitHub and gharchive"  *)

\* a repository that GitHub no longer knows
GoneRepo == <<"o", "r", "g", "D", "/", "g", "o", "n", "e">>

\* a Repository object with the attributes the cell reads
Repository(name, isFork, stars) ==
    [type |-> "Repository", full_name |-> name, fork |-> isFork,
     stargazers_count |-> stars]

\* what github_client.get_repo does for the repositories of the archive
ArchiveAnswers ==
    (ToolX :> Gives(Repository(ToolX, FALSE, 2)))
    @@ (ToolY :> Gives(Repository(ToolY, FALSE, 1)))
    @@ (ToolZ :> Gives(Repository(ToolZ, FALSE, 0)))
    @@ (ToolXLowerCased :> Gives(Repository(ToolXLowerCased, TRUE, 5)))
    @@ (GoneRepo :> Raises)

\* the rows the query SELECT DISTINCT repo.name ... may give for a project:
\* distinct names, none of them the project's own full name
ArchiveRows(project) ==
    {rows \in ListsOf(DOMAIN ArchiveAnswers
                         \ {project["GitHub Repo Full Name"]}) :
        \A a \in DOMAIN rows, b \in DOMAIN rows : rows[a] = rows[b] => a = b}

\* the condition of the comprehension: not None, not a fork, and
\* repo.stargazers_count > 1
KeepContribution(repo) ==
    /\ ~IsNone(repo)
    /\ ~repo.fork
    /\ repo.stargazers_count > 1

\* the list comprehension over the rows of the query
ContributingTo(rows) ==
    LET repos == [k \in DOMAIN rows |->
                     SafelyQueryGithubRepoFromArchiveData(rows[k])]
        kept == SelectSeq(repos, KeepContribution)
    IN [k \in DOMAIN kept |->
           ("repo.full_name" :> kept[k].full_name)
           @@ ("repo.stargazers_count" :> kept[k].stargazers_count)]

GatherPersonnelContributions ==
    /\ pc = "personnel"
    /\ LET project == tgt_github_metrics[Current]
       IN \E rows \in ArchiveRows(project) :
            /\ searched' = Append(searched, rows)
            /\ FinishRecord(
                  DictWith(project,
                      "GitHub Target Key Personnel Contributing To"
                          :> ContributingTo(rows)),
                  "personnel_done")
    /\ UNCHANGED <<densify_vars_but_pc, loi_target_projects, other_vars>>

\* the cell "gather targeted data from GitHub" has run for the two projects
InitPersonnel ==
    /\ heap = <<>>
    /\ months_data = None
    /\ years_data = None
    /\ date_minimum = None
    /\ date_max = None
    /\ start_date = None
    /\ end_date = None
    /\ current_date = None
    /\ current_year = None
    /\ result = None
    /\ ret = None
    /\ prev_ret = None
    /\ calls = 0
    /\ passed = None
    /\ raised = "none"
    /\ pc = "personnel"
    /\ tgt_github_metrics =
          [i \in DOMAIN BatchRepos |->
              ("Project Name" :> BatchRepos[i].name)
              @@ ("GitHub Repo Full Name" :> BatchRepos[i].full_name)]
    /\ comprehension = <<>>
    /\ searched = <<>>
    /\ loi_target_projects = BatchRepos
    /\ PubIdle
    /\ LandscapeIdle
    /\ pkg_metrics = <<>>
    /\ call_args = <<>>
    /\ call_ret = PyNone
    /\ github_client = ArchiveAnswers

NextPersonnel == GatherPersonnelContributions

SpecPersonnel == InitPersonnel /\ [][NextPersonnel]_vars

-----------------------------------------------------------------------------
(* What the claim about the key personnel's repositories speaks of *)

PersonnelGathered == pc = "personnel_done"

ContributingToOf(i) ==
    tgt_github_metrics[i]["GitHub Target Key Personnel Contributing To"]

\* the names of the repositories kept for project i, in their order
KeptNamesOf(i) ==
    [k \in DOMAIN ContributingToOf(i) |-> ContributingToOf(i)[k]["repo.full_name"]]

\* the lookup of the name gave a repository that is no fork and has more
\* than 0 stars
NonNullNoForkStarred(name) ==
    /\ ~github_client[name].raises
    /\ ~github_client[name].value.fork
    /\ github_client[name].value.stargazers_count > 0

\* C24: 'GitHub Target Key Personnel Contributing To' holds exactly the
\* contribution repositories whose lookup gave a repository that is not
\* None, is no fork and has more than 0 stars, in the order of the rows.
C24_KeepsMoreThanZeroStars ==
    PersonnelGathered =>
        \A i \in Projects :
            KeptNamesOf(i) = SelectSeq(searched[i], NonNullNoForkStarred)

-----------------------------------------------------------------------------
(***************************************************************************)
(* notebooks/cytomining-ecosystem/project-git-metrics.py: the filter       *)
(***************************************************************************)

\* a & b of two ints that are not negative
RECURSIVE BitAnd(_, _)
BitAnd(a, b) ==
    IF a = 0 \/ b = 0 THEN 0
    ELSE (a % 2) * (b % 2) + 2 * BitAnd(a \div 2, b \div 2)

\* the int a bool counts as in arithmetic and comparisons
IntOfBool(b) == IF b THEN 1 ELSE 0

\* n & flag for an int n and an element of a Series of bools: the bits are
\* combined and the result is a bool again
IntAndBool(n, flag) == BitAnd(n, IntOfBool(flag)) # 0

\* the languages repo.get_languages() may report
Python == <<"P", "y", "t", "h", "o", "n">>

\* the rows the data frame may hold: the columns the filter reads
ProjectRows ==
    [size : {0, 49, 50, 51},
     archived : BOOLEAN,
     languages : {EmptyDict, Python :> 1200}]

\* an element of: df_projects["Repository Size (KB)"] >= 50
\* & ~df_projects["GitHub Repo Archived"].  In Python & binds tighter than
\* >=, so the size is compared with 50 & ~archived
SizeAndArchivedMask(row) ==
    row.size >= IntOfBool(IntAndBool(50, ~row.archived))

\* an element of: df_projects["GitHub Detected Languages"].str.len() > 0
LanguagesMask(row) == Cardinality(DOMAIN row.languages) > 0

\* df_projects = df_projects[...][...]
FilterProjects ==
    /\ pc = "filter"
    /\ df_projects' =
          SelectSeq(SelectSeq(df_projects, SizeAndArchivedMask), LanguagesMask)
    /\ pc' = "filtered"
    /\ UNCHANGED <<densify_vars_but_pc, notebook_vars, pub_vars, later_vars,
                   target_project_html_urls, results, df_scrna_tools_records,
                   seen_url, projects_yaml>>

\* the data frame holds the rows of any projects
InitFilter ==
    /\ heap = <<>>
    /\ months_data = None
    /\ years_data = None
    /\ date_minimum = None
    /\ date_max = None
    /\ start_date = None
    /\ end_date = None
    /\ current_date = None
    /\ current_year = None
    /\ result = None
    /\ ret = None
    /\ prev_ret = None
    /\ calls = 0
    /\ passed = None
    /\ raised = "none"
    /\ pc = "filter"
    /\ tgt_github_metrics = <<>>
    /\ comprehension = <<>>
    /\ searched = <<>>
    /\ loi_target_projects = <<>>
    /\ PubIdle
    /\ LaterIdle
    /\ df_projects \in ListsOf(ProjectRows)
    /\ target_project_html_urls = <<>>
    /\ results = <<>>
    /\ df_scrna_tools_records = <<>>
    /\ seen_url = {}
    /\ projects_yaml = <<>>

NextFilter == FilterProjects

SpecFilter == InitFilter /\ [][NextFilter]_vars

-----------------------------------------------------------------------------
(* What the claim about the filter speaks of *)

\* at least 50 KB, not archived, and at least one detected language
MeetsAllThree(row) ==
    /\ row.size >= 50
    /\ ~row.archived
    /\ DOMAIN row.languages # {}

\* C23: the filter step leaves exactly the projects that have a size of at
\* least 50 KB, are not archived and have a detected language: none of the
\* remaining rows fails one of the three conditions and every row that
\* meets all three remains, in its order.
C23_FilterKeepsExactly ==
    [][pc = "filter" => df_projects' = SelectSeq(df_projects, MeetsAllThree)]_vars

-----------------------------------------------------------------------------
(***************************************************************************)
(* notebooks/cytomining-ecosystem/seek-landscape-entries.py                *)
(***************************************************************************)

\* repository URLs: those of the two target projects and two others
UrlPycytominer == "https://github.com/cytomining/pycytominer"
UrlCytoTable == "https://github.com/cytomining/CytoTable"
UrlScanpy == "https://github.com/scverse/scanpy"
UrlSeurat == "https://github.com/satijalab/seurat"

Urls == {UrlPycytominer, UrlCytoTable, UrlScanpy, UrlSeurat}

\* Box.from_yaml(filename="data/target-projects.yaml").projects
TargetProjects ==
    <<[name |-> "pycytominer", repo_url |-> UrlPycytominer,
       category |-> <<"loi-focus">>],
      [name |-> "CytoTable", repo_url |-> UrlCytoTable,
       category |-> <<"loi-focus">>]>>

\* the repositories github_client.search_repositories may yield, over all
\* queries
SearchedRepositories ==
    {[name |-> "repo", homepage |-> "", html_url |-> url] : url \in Urls}

\* the record made of a search result
SearchRecord(found) ==
    [name |-> found.name, homepage_url |-> found.homepage,
     repo_url |-> found.html_url,
     category |-> <<"related-tools-github-query-result">>]

\* the records the scRNA-Tools table may give: rows with a GitHub link, two
\* tools may name one repository
ScrnaToolsRecords ==
    {[name |-> name, repo_url |-> url,
      category |-> <<"cytomining-ecosystem-adjacent-tools">>] :
        name \in {"tool", "toolkit"}, url \in Urls}

\* x in list
InUrlList(x, list) == \E k \in DOMAIN list : list[k] = x

\* target_project_html_urls = [project["repo_url"] for project in ...]
ReadTargetProjectUrls ==
    /\ pc = "targets"
    /\ target_project_html_urls' =
          [k \in DOMAIN TargetProjects |-> TargetProjects[k].repo_url]
    /\ pc' = "search"
    /\ UNCHANGED <<densify_vars_but_pc, notebook_vars, pub_vars, later_vars,
                   df_projects, results, df_scrna_tools_records, seen_url,
                   projects_yaml>>

\* results = [... for query in queries for result in search_repositories(...)
\*            if result.html_url not in target_project_html_urls]
SearchRepositories ==
    /\ pc = "search"
    /\ \E found \in ListsOf(SearchedRepositories) :
          LET kept == SelectSeq(found,
                         LAMBDA r : ~InUrlList(r.html_url,
                                               target_project_html_urls))
          IN results' = [k \in DOMAIN kept |-> SearchRecord(kept[k])]
    /\ pc' = "scrna"
    /\ UNCHANGED <<densify_vars_but_pc, notebook_vars, pub_vars, later_vars,
                   df_projects, target_project_html_urls,
                   df_scrna_tools_records, seen_url, projects_yaml>>

\* df_scrna_tools_records = df_scrna_tools.head(100)[...].to_dict(...)
ReadScrnaTools ==
    /\ pc = "scrna"
    /\ df_scrna_tools_records' \in ListsOf(ScrnaToolsRecords)
    /\ pc' = "append"
    /\ UNCHANGED <<densify_vars_but_pc, notebook_vars, pub_vars, later_vars,
                   df_projects, target_project_html_urls, results, seen_url,
                   projects_yaml>>

\* results = df_scrna_tools_records + results
AppendResults ==
    /\ pc = "append"
    /\ results' = df_scrna_tools_records \o results
    /\ pc' = "unique"
    /\ UNCHANGED <<densify_vars_but_pc, notebook_vars, pub_vars, later_vars,
                   df_projects, target_project_html_urls,
                   df_scrna_tools_records, seen_url, projects_yaml>>

\* a bug: nothing is added to the set
SeenAddNothing(seen, url) == seen

\* seen_url.add(url), as the set it leaves
SeenAdd(seen, url) == seen \cup {url}

\* the comprehension of the uniqueness filter from a position on: the
\* records it keeps and the set it leaves
RECURSIVE UniqueFrom(_, _)
UniqueFrom(list, seen) ==
    IF list = <<>> THEN [kept |-> <<>>, seen |-> seen]
    ELSE IF Head(list).repo_url \notin seen
    THEN LET rest == UniqueFrom(Tail(list), SeenAdd(seen, Head(list).repo_url))
         IN [kept |-> <<Head(list)>> \o rest.kept, seen |-> rest.seen]
    ELSE UniqueFrom(Tail(list), seen)

\* seen_url = set(); results = [result for result in results if ...]
FilterUniques ==
    /\ pc = "unique"
    /\ results' = UniqueFrom(results, {}).kept
    /\ seen_url' = UniqueFrom(results, {}).seen
    /\ pc' = "export"
    /\ UNCHANGED <<densify_vars_but_pc, notebook_vars, pub_vars, later_vars,
                   df_projects, target_project_html_urls,
                   df_scrna_tools_records, projects_yaml>>

\* results = target projects + results; Box({"projects": results}).to_yaml(...)
ExportProjects ==
    /\ pc = "export"
    /\ results' = TargetProjects \o results
    /\ projects_yaml' = TargetProjects \o results
    /\ pc' = "exported"
    /\ UNCHANGED <<densify_vars_but_pc, notebook_vars, pub_vars, later_vars,
                   df_projects, target_project_html_urls,
                   df_scrna_tools_records, seen_url>>

InitLandscape ==
    /\ heap = <<>>
    /\ months_data = None
    /\ years_data = None
    /\ date_minimum = None
    /\ date_max = None
    /\ start_date = None
    /\ end_date = None
    /\ current_date = None
    /\ current_year = None
    /\ result = None
    /\ ret = None
    /\ prev_ret = None
    /\ calls = 0
    /\ passed = None
    /\ raised = "none"
    /\ pc = "targets"
    /\ tgt_github_metrics = <<>>
    /\ comprehension = <<>>
    /\ searched = <<>>
    /\ loi_target_projects = <<>>
    /\ OthersIdle

NextLandscape ==
    \/ ReadTargetProjectUrls
    \/ SearchRepositories
    \/ ReadScrnaTools
    \/ AppendResults
    \/ FilterUniques
    \/ ExportProjects

SpecLandscape == InitLandscape /\ [][NextLandscape]_vars

-----------------------------------------------------------------------------
(* What the claims about the project list speak of *)

Exported == pc = "exported"

\* the repo_urls of a list of records, in their order
RepoUrls(list) == [k \in DOMAIN list |-> list[k].repo_url]

\* the positions of the export at which the url stands
ExportedAt(url) == {k \in DOMAIN projects_yaml : projects_yaml[k].repo_url = url}

\* the results that follow the target projects in the export
AppendedResults ==
    SubSeq(projects_yaml, Len(TargetProjects) + 1, Len(projects_yaml))

\* C25: in the exported list no repo_url of a target project occurs among
\* the results appended after the target projects, whichever source gave
\* the result, and every repo_url of the list occurs exactly once.
C25_TargetsNotRepeated ==
    Exported =>
        /\ \A k \in DOMAIN AppendedResults :
              ~InUrlList(AppendedResults[k].repo_url, target_project_html_urls)
        /\ \A k \in DOMAIN projects_yaml :
              Cardinality(ExportedAt(projects_yaml[k].repo_url)) = 1

\* position k holds the first record of the list with its repo_url
IsFirstWithUrl(list, k) ==
    \A j \in 1..(k - 1) : list[j].repo_url # list[k].repo_url

\* the records at the positions S of the list, in their order
RECURSIVE RecordsAt(_, _)
RecordsAt(list, S) ==
    IF S = {} THEN <<>>
    ELSE LET last == CHOOSE k \in S : \A j \in S : j <= k
         IN Append(RecordsAt(list, S \ {last}), list[last])

\* C26: the uniqueness filter keeps, for every repo_url of the concatenated
\* list (scRNA-Tools records, then GitHub query results), exactly the first
\* record with that repo_url and drops the later ones, the kept records stay
\* in their order, and seen_url is left as the set of the kept repo_urls.
C26_FirstRecordPerUrl ==
    [][pc = "unique" =>
          /\ results' =
                RecordsAt(results,
                          {k \in DOMAIN results : IsFirstWithUrl(results, k)})
          /\ seen_url' = {results'[k].repo_url : k \in DOMAIN results'}
          /\ seen_url' = {results[k].repo_url : k \in DOMAIN results}]_vars

\* two different scRNA-Tools records with one repo_url and a query result
\* with another: the filter has kept the first record and the query result
C26_Witness ==
    /\ pc = "export"
    /\ Len(df_scrna_tools_records) = 2
    /\ df_scrna_tools_records[1].repo_url = df_scrna_tools_records[2].repo_url
    /\ df_scrna_tools_records[1] # df_scrna_tools_records[2]
    /\ Len(results) = 2
    /\ results[1] = df_scrna_tools_records[1]
    /\ results[2].category = <<"related-tools-github-query-result">>
    /\ seen_url = {results[1].repo_url, results[2].repo_url}

-----------------------------------------------------------------------------
(* What the further claims about return_distinct_values_by_threshold speak  *)
(* of                                                                        *)

\* l without its last item
WithoutLast(l) == SubSeq(l, 1, Len(l) - 1)

\* C28: for a list of titles that are pairwise different, the last title is
\* never in the list returned, so the list returned is shorter than the
\* argument when that has a title at all; with threshold 100 the list
\* returned is the argument without its last item.
C28_LastTitleNeverKept ==
    DistinctReturned /\ NoRepeats(string_list) =>
        /\ Len(string_list) >= 1 =>
              /\ ~InList(string_list[Len(string_list)], distinct_ret)
              /\ Len(distinct_ret) < Len(string_list)
        /\ threshold = 100 => distinct_ret = WithoutLast(string_list)

\* three different titles and threshold 100: the first two are returned
C28_Witness ==
    /\ DistinctReturned
    /\ NoRepeats(string_list)
    /\ Len(string_list) = 3
    /\ threshold = 100
    /\ distinct_ret = <<string_list[1], string_list[2]>>

\* the call is running or has returned
InDistinctCall == pc \in {"d_outer", "d_inner", "d_returned"}

\* the pairs of positions (counted from 1) the loops have compared so far
ComparedPairs ==
    {pair \in (DOMAIN string_list) \X (DOMAIN string_list) :
        /\ pair[1] < pair[2]
        /\ \/ pair[1] <= idx_i
           \/ pc = "d_inner" /\ pair[1] = idx_i + 1 /\ pair[2] <= idx_j}

\* the first position of the argument that holds the title x
FirstOccurrence(x) ==
    CHOOSE a \in DOMAIN string_list :
        string_list[a] = x /\ \A b \in DOMAIN string_list :
                                 string_list[b] = x => a <= b

\* the list holds no string twice, only strings of the argument, in the
\* order of their first occurrence in the argument
DistinctAndOrdered(l) ==
    /\ NoRepeats(l)
    /\ \A k \in DOMAIN l : InList(l[k], string_list)
    /\ \A a, b \in DOMAIN l :
          a < b => FirstOccurrence(l[a]) < FirstOccurrence(l[b])

\* n(n-1)/2
PairCount(n) == (n * (n - 1)) \div 2

\* C29: for every argument and threshold the list built and returned holds
\* no string twice, only strings of the argument, in the order of their
\* first occurrence in the argument; the argument is not changed; every
\* pass of the inner loop compares one more pair, and the call returns after
\* n(n-1)/2 comparisons.
C29_DistinctOrderedBounded ==
    /\ [](InDistinctCall =>
            /\ DistinctAndOrdered(distinct_list)
            /\ Cardinality(ComparedPairs) <= PairCount(Len(string_list))
            /\ DistinctReturned =>
                  /\ DistinctAndOrdered(distinct_ret)
                  /\ Cardinality(ComparedPairs) = PairCount(Len(string_list)))
    /\ [][(pc \in {"d_enter", "d_outer", "d_inner"}) =>
             string_list' = string_list]_vars
    /\ [][pc = "d_inner" /\ idx_j < Len(string_list) =>
             Cardinality(ComparedPairs') = Cardinality(ComparedPairs) + 1]_vars

\* the first title occurs again as the third: both different titles are
\* returned, after three comparisons
C29_Witness ==
    /\ DistinctReturned
    /\ Len(string_list) = 3
    /\ string_list[1] = string_list[3]
    /\ string_list[1] # string_list[2]
    /\ distinct_ret = <<string_list[1], string_list[2]>>
    /\ Cardinality(ComparedPairs) = 3

-----------------------------------------------------------------------------
(* What the claim about the independence of the projects speaks of *)

\* the run of the cells has ended, with the last cell or with an exception
RunEnded == pc \in {"done", "raised"}

\* the raw results of project i can be densified and counted: every
\* timestamp of a star parses and the dependents result has its keys
OwnResultsWellFormed(i) ==
    /\ "GitHub Dependents" \in DOMAIN tgt_github_metrics[i]
    /\ ~LacksSubstructure(i)
    /\ \A k \in DOMAIN StarsByDateOf(i) :
          StrptimeTimestamp(StarsByDateOf(i)[k]).ok

\* the derived fields of project i, computed from its own raw results
DerivedFromOwnResults(i) ==
    LET project == tgt_github_metrics[i]
        dates == [k \in DOMAIN StarsByDateOf(i) |->
                     StrptimeTimestamp(StarsByDateOf(i)[k]).value]
        byMonth == AddMissingMonths(CountByMonth(dates),
                                    project["GitHub Repo Created Month"],
                                    CurrentYearMonth).value
        byYear == AddMissingYears(CountByYear(dates),
                                  project["GitHub Repo Created Month"],
                                  CurrentYearMonth).value
    IN ("GitHub Stargazers Count by Month" :> byMonth)
       @@ ("GitHub Stargazers Count by Year" :> byYear)
       @@ ("GitHub Contributor Total Count"
              :> Len(project["GitHub Contributors"]))
       @@ ("GitHub Dependency Graph Dependents Count"
              :> project["GitHub Dependents"]["total_dependents_number"])
       @@ ("GitHub Code Search Dependents Count" :> Len(UsedByOf(i)))
       @@ ("GitHub Total Dependents Count" :> Cardinality(MergedOf(i)))
       @@ ("GitHub Stargazers Count by Month Average"
              :> FindAverage(DictValues(byMonth)))
       @@ ("GitHub Stargazers Count by Month Median"
              :> FindMedian(DictValues(byMonth)))
       @@ ("GitHub Stargazers Count by Year Average"
              :> FindAverage(DictValues(byYear)))
       @@ ("GitHub Stargazers Count by Year Median"
              :> FindMedian(DictValues(byYear)))

\* the record of project i has the derived fields its own results give
HasOwnDerivedFields(i) ==
    \A key \in DOMAIN DerivedFromOwnResults(i) :
        /\ key \in DOMAIN tgt_github_metrics[i]
        /\ tgt_github_metrics[i][key] = DerivedFromOwnResults(i)[key]

\* C21: the derived fields of a project depend on its own raw results only:
\* when the run has ended, every project whose own results are well formed
\* has the densified series, the dependent counts and the averages and
\* medians that its own results give, whatever the results of the other
\* project of the batch are.
C21_OwnResultsDecideDerivedFields ==
    RunEnded =>
        \A i \in Projects : OwnResultsWellFormed(i) => HasOwnDerivedFields(i)

\* what the code does: when no cell raised, every project has the derived
\* fields that its own raw results give.
C21_OwnResultsDecideWhenNoCellRaises ==
    Counted => \A i \in Projects : HasOwnDerivedFields(i)

\* a cell raised for the results of one project while the results of the
\* other project are well formed, and that project has no derived fields
C21_Witness ==
    /\ pc = "raised"
    /\ \E i \in Projects, j \in Projects :
          /\ OwnResultsWellFormed(i)
          /\ ~OwnResultsWellFormed(j)
          /\ "GitHub Total Dependents Count" \notin DOMAIN tgt_github_metrics[i]

-----------------------------------------------------------------------------
(* What the claim about the enrichment steps speaks of *)

\* every field of the record old is a field of the record new, with its value
KeepsFields(old, new) ==
    \A key \in DOMAIN old : key \in DOMAIN new /\ new[key] = old[key]

\* the list new has a record for each record of the list old, in its place,
\* with the fields of the old one and the named fields added
EnrichedBy(old, new, fields) ==
    /\ Len(new) = Len(old)
    /\ \A i \in DOMAIN old :
          /\ KeepsFields(old[i], new[i])
          /\ DOMAIN new[i] \ DOMAIN old[i] = fields

\* the records of a running comprehension are built from the records of the
\* list it runs over, one by one from the first
BuiltFrom(old, built, fields) ==
    /\ Len(built) <= Len(old)
    /\ \A i \in DOMAIN built :
          /\ KeepsFields(old[i], built[i])
          /\ DOMAIN built[i] \ DOMAIN old[i] = fields

\* the fields that each cell built as dict(project, **{...}) names, by the
\* position in the code at which the cell works
NamedFields ==
    ("dependents" :> {"GitHub Dependents"})
    @@ ("densify" :> {"GitHub Stargazers Count by Month",
                      "GitHub Stargazers Count by Year"})
    @@ ("counts" :> {"GitHub Contributor Total Count",
                     "GitHub Dependency Graph Dependents Count",
                     "GitHub Code Search Dependents Count",
                     "GitHub Total Dependents Count",
                     "GitHub Stargazers Count by Month Average",
                     "GitHub Stargazers Count by Month Median",
                     "GitHub Stargazers Count by Year Average",
                     "GitHub Stargazers Count by Year Median"})
    @@ ("scholar" :> {"google_scholar_search_results"})
    @@ ("bioarxiv" :> {"bioarxiv_search_results"})
    @@ ("titles" :> {"all_article_titles"})
    @@ ("linked" :> {"all_article_titles_record_linked_removed"})
    @@ ("pub_counts" :> {"google_scholar_count", "bioarxiv_count",
                         "total_pub_count",
                         "total_pub_count_non_record_linked"})
    @@ ("pypi" :> Range(PypiFields))
    @@ ("conda" :> Range(CondaFields))

\* a step of an enrichment cell over the list metrics: the list is left as
\* it is while the comprehension builds its records from it, and when it is
\* bound again the new list is the old one enriched by the named fields
EnrichmentStep(metrics, metricsNext) ==
    /\ metricsNext # metrics => EnrichedBy(metrics, metricsNext, NamedFields[pc])
    /\ comprehension' # <<>> =>
          /\ metricsNext = metrics
          /\ BuiltFrom(metrics, comprehension', NamedFields[pc])

\* C30: every cell built as dict(project, **{...}) preserves the batch: the
\* number and the order of the records stay, every field a record had keeps
\* its value, only the fields the cell names are added, and the list of the
\* previous step is left as it was while the new one is built.
C30_EnrichmentPreservesBatch ==
    /\ [][(pc \in {"dependents", "densify", "counts"}) =>
             EnrichmentStep(tgt_github_metrics, tgt_github_metrics')]_vars
    /\ [][(pc \in {"scholar", "bioarxiv", "titles", "linked", "pub_counts"}) =>
             EnrichmentStep(pub_metrics, pub_metrics')]_vars
    /\ [][(pc \in {"pypi", "conda"}) =>
             EnrichmentStep(pkg_metrics, pkg_metrics')]_vars

\* the last cell has run for a batch of two projects: both records are in
\* the order of the batch, a record still has the two timestamps of its stars
\* and has its counts
C30_Witness ==
    /\ pc = "done"
    /\ Len(tgt_github_metrics) = 2
    /\ \A i \in Projects :
          /\ FullNameOf(i) = loi_target_projects[i].full_name
          /\ NamedFields["counts"] \subseteq DOMAIN tgt_github_metrics[i]
    /\ \E i \in Projects : Len(StarsByDateOf(i)) = 2

=============================================================================
